---- MODULE Spec2Model ----
(***************************************************************************)
(* sonar-gitlab-commenter: the diff line mapper, the finding matcher and   *)
(* the annotation reconciler of src/main.go, with the GitLab client of     *)
(* internal/gitlab/client.go as far as the run depends on it.              *)
(*                                                                         *)
(* Strings are sequences of one-character strings, so that prefix tests,   *)
(* trimming and containment are computed and not assumed.  The text of a   *)
(* unified diff is the sequence of its lines (the result of the split at   *)
(* line 468 of main.go).  The fields of a finding, the status of the       *)
(* quality gate and the values of the measures are strings of the          *)
(* language, trimmed, cased and parsed character by character.  A run is   *)
(* made without --logs.                                                    *)
(***************************************************************************)
EXTENDS Integers, Sequences, FiniteSets, TLC

\* ---------------------------------------------------------------------
\* Bounds of the model
\* ---------------------------------------------------------------------
MaxDiffLen == 4
MaxChanges == 2
MaxIssues == 3
MaxRuns == 2
MaxNotes == 3
\* the pieces of a response body that are read into an error text
\* (maxResponseBodyForError, scaled)
MaxErrorBody == 2
\* the measures of one answer of /api/measures/component
MaxMeasures == 2
\* the items of one page of a listing (per_page of withPagination, scaled)
PageSize == 1

\* ---------------------------------------------------------------------
\* Strings.  The characters of the model are those up to U+00FF.
\* ---------------------------------------------------------------------
HasPrefix(s, p) ==
    /\ Len(s) >= Len(p)
    /\ \A i \in 1..Len(p) : s[i] = p[i]

\* U+000B, U+0085 and U+00A0
VerticalTab == ""
NextLine == ""
NoBreakSpace == " "

\* the characters unicode.IsSpace holds of
WhiteSpace == {" ", "\t", "\n", "\r", "\f", VerticalTab, NextLine, NoBreakSpace}

IsSpaceChar(c) == c \in WhiteSpace

\* the least and the greatest number of a set that is not empty
Least(S) == CHOOSE j \in S : \A h \in S : j <= h
Greatest(S) == CHOOSE j \in S : \A h \in S : j >= h

\* strings.TrimSpace of a string: what lies between its first and its last
\* character that is not white space
Between(s, kept) == IF kept = {} THEN "" ELSE SubSeq(s, Least(kept), Greatest(kept))
TrimSpaceString(s) == Between(s, {j \in 1..Len(s) : ~IsSpaceChar(SubSeq(s, j, j))})

\* the letters with an upper and a lower case among the characters of the
\* model, in the same order
UpperLetters == "ABCDEFGHIJKLMNOPQRSTUVWXYZÀÁÂÃÄÅÆÇÈÉÊËÌÍÎÏÐÑÒÓÔÕÖØÙÚÛÜÝÞ"
LowerLetters == "abcdefghijklmnopqrstuvwxyzàáâãäåæçèéêëìíîïðñòóôõöøùúûüýþ"

Digits == "0123456789"
HexDigits == "0123456789abcdefABCDEF"

\* the place of every character of the letters
PlacesOf(letters) ==
    [c \in {SubSeq(letters, i, i) : i \in 1..Len(letters)} |->
        CHOOSE i \in 1..Len(letters) : SubSeq(letters, i, i) = c]

UpperPlaces == PlacesOf(UpperLetters)
LowerPlaces == PlacesOf(LowerLetters)
DigitPlaces == PlacesOf(Digits)
HexPlaces == PlacesOf(HexDigits)

\* the place of the character among the letters (0: not one of them)
PlaceIn(places, c) == IF c \in DOMAIN places THEN places[c] ELSE 0

\* the character at place k of the letters, c itself for k = 0
LetterAt(letters, k, c) == IF k > 0 THEN SubSeq(letters, k, k) ELSE c

\* strings.ToLower, character by character
RECURSIVE ToLower(_)
ToLower(s) ==
    IF Len(s) = 0 THEN s
    ELSE IF Len(s) = 1 THEN LetterAt(LowerLetters, PlaceIn(UpperPlaces, s), s)
    ELSE ToLower(SubSeq(s, 1, Len(s) \div 2)) \o ToLower(SubSeq(s, Len(s) \div 2 + 1, Len(s)))

\* the string without the character c
RECURSIVE Without(_, _)
Without(s, c) ==
    IF Len(s) = 0 THEN s
    ELSE IF Len(s) = 1 THEN (IF s = c THEN "" ELSE s)
    ELSE Without(SubSeq(s, 1, Len(s) \div 2), c) \o Without(SubSeq(s, Len(s) \div 2 + 1, Len(s)), c)

\* the first place of the character in s (0: none)
LeastOrZero(S) == IF S = {} THEN 0 ELSE Least(S)
IndexOf(s, c) == LeastOrZero({j \in 1..Len(s) : SubSeq(s, j, j) = c})

IsDigit(c) == PlaceIn(DigitPlaces, c) > 0
\* 'a' <= lower(c) <= 'f'
IsHexLetter(c) == PlaceIn(HexPlaces, c) > 10

StripLeadingZeros(s) ==
    SubSeq(s, Least({j \in 1..Len(s) : SubSeq(s, j, j) # "0"} \cup {Len(s) + 1}), Len(s))

StripTrailingZeros(s) ==
    SubSeq(s, 1, Greatest({j \in 1..Len(s) : SubSeq(s, j, j) # "0"} \cup {0}))

\* the number a short string of digits spells
RECURSIVE DigitsValue(_)
DigitsValue(s) ==
    IF Len(s) = 0 THEN 0
    ELSE 10 * DigitsValue(SubSeq(s, 1, Len(s) - 1)) + PlaceIn(DigitPlaces, SubSeq(s, Len(s), Len(s))) - 1

Twice(s) == s \o s
Zeros8 == "00000000"
Zeros2048 == Twice(Twice(Twice(Twice(Twice(Twice(Twice(Twice(Zeros8))))))))

\* n zeros, n <= 2048
Zeros(n) == IF n <= 0 THEN "" ELSE SubSeq(Zeros2048, 1, n)

\* ---------------------------------------------------------------------
\* Natural numbers of any size, for the arithmetic of float64: a number is
\* the sequence of its limbs to the base 10000, the lowest first and the
\* highest not zero (zero is the empty sequence).
\* ---------------------------------------------------------------------
Limb == 10000

LimbOf(a, i) == IF i <= Len(a) THEN a[i] ELSE 0

\* the limbs up to the highest that is not zero
NatTrim(limbs) == SubSeq(limbs, 1, Greatest({j \in 1..Len(limbs) : limbs[j] # 0} \cup {0}))

\* a * k + c for a k that divides the base and a c below k: what a limb
\* carries upwards is then the overflow of k times the limb alone
NatScale(a, k, c) ==
    NatTrim([i \in 1..(Len(a) + 1) |->
                ((LimbOf(a, i) * k) % Limb)
                + (IF i = 1 THEN c ELSE (a[i - 1] * k) \div Limb)])

\* a[1..i] is below b[1..i]
PrefixBelow(a, b, i) ==
    \E j \in 1..i : /\ LimbOf(a, j) < LimbOf(b, j)
                    /\ \A h \in (j + 1)..i : LimbOf(a, h) = LimbOf(b, h)

\* -1, 0, 1: a below, equal to, above b
NatCmp(a, b) ==
    IF a = b THEN 0
    ELSE IF Len(a) < Len(b) \/ (Len(a) = Len(b) /\ PrefixBelow(a, b, Len(a))) THEN -1
    ELSE 1

\* a - b, for a >= b: limb i borrows when a[1..i-1] is below b[1..i-1]
NatSub(a, b) ==
    NatTrim([i \in 1..Len(a) |->
                (a[i] - LimbOf(b, i) - (IF PrefixBelow(a, b, i - 1) THEN 1 ELSE 0) + Limb) % Limb])

\* a[1..i] + b[1..i] carries into limb i + 1
PrefixCarries(a, b, i) ==
    \E j \in 1..i : /\ LimbOf(a, j) + LimbOf(b, j) >= Limb
                    /\ \A h \in (j + 1)..i : LimbOf(a, h) + LimbOf(b, h) = Limb - 1

NatAdd(a, b) ==
    NatTrim([i \in 1..((IF Len(a) > Len(b) THEN Len(a) ELSE Len(b)) + 1) |->
                (LimbOf(a, i) + LimbOf(b, i) + (IF PrefixCarries(a, b, i - 1) THEN 1 ELSE 0)) % Limb])

RECURSIVE Pow(_, _)
Pow(k, n) == IF n = 0 THEN 1 ELSE k * Pow(k, n - 1)

\* a * k^n for k = 2 and k = 5, four powers of k at a time
RECURSIVE NatTimesPower(_, _, _)
NatTimesPower(a, k, n) ==
    IF a = <<>> THEN a
    ELSE IF n <= 4 THEN NatScale(a, Pow(k, n), 0)
    ELSE NatTimesPower(NatTimesPower(a, k, 4 * ((n \div 4 + 1) \div 2)),
                       k, n - 4 * ((n \div 4 + 1) \div 2))

NatTimesPow2(a, n) == NatTimesPower(a, 2, n)
NatTimesPow5(a, n) == NatTimesPower(a, 5, n)
NatTimesPow10(a, n) ==
    IF a = <<>> THEN a ELSE [i \in 1..(n \div 4) |-> 0] \o NatScale(a, Pow(10, n % 4), 0)

\* the number a string of decimal digits spells, four digits to the limb
NatOfDigits(s) ==
    NatTrim([i \in 1..((Len(s) + 3) \div 4) |->
                DigitsValue(SubSeq(s, IF Len(s) - 4 * i + 1 < 1 THEN 1 ELSE Len(s) - 4 * i + 1,
                                   Len(s) - 4 * (i - 1)))])

\* the value of a hexadecimal digit at place k of HexDigits
HexValue(k) == IF k > 16 THEN k - 7 ELSE k - 1

\* the number a string of hexadecimal digits spells
RECURSIVE NatOfHex(_)
NatOfHex(s) ==
    IF Len(s) = 0 THEN <<>>
    ELSE IF Len(s) = 1 THEN NatTrim(<<HexValue(PlaceIn(HexPlaces, s))>>)
    ELSE NatAdd(NatTimesPow2(NatOfHex(SubSeq(s, 1, Len(s) \div 2)), 4 * (Len(s) - Len(s) \div 2)),
                NatOfHex(SubSeq(s, Len(s) \div 2 + 1, Len(s))))

\* the four digits of a limb
DigitOf(d) == SubSeq(Digits, d + 1, d + 1)
LimbDigits(v) ==
    DigitOf(v \div 1000) \o DigitOf((v \div 100) % 10) \o DigitOf((v \div 10) % 10) \o DigitOf(v % 10)

\* the digits of the limbs lo..hi, the highest first
RECURSIVE DigitsOfLimbs(_, _, _)
DigitsOfLimbs(a, lo, hi) ==
    IF lo = hi THEN LimbDigits(a[lo])
    ELSE DigitsOfLimbs(a, (lo + hi) \div 2 + 1, hi) \o DigitsOfLimbs(a, lo, (lo + hi) \div 2)

\* the decimal digits of a number, "0" for zero
DigitsOfNat(a) == IF a = <<>> THEN "0" ELSE StripLeadingZeros(DigitsOfLimbs(a, 1, Len(a)))

\* ---------------------------------------------------------------------
\* Floating-point numbers.  A float64 is held as the decimal expansion of
\* the binary number it is: its sign, the digits before the point without
\* leading zeros ("0" for none) and the digits after it without trailing
\* zeros.  Every float64 has a finite expansion, and two float64 are equal
\* exactly when their expansions are.
\* ---------------------------------------------------------------------
\* the digits before the point: "0" for none
OrZero(s) == IF s = "" THEN "0" ELSE s

SignedZero(neg) == [kind |-> "finite", neg |-> neg, int |-> "0", frac |-> ""]

Float(neg, int, frac) ==
    [kind |-> "finite", neg |-> neg,
     int |-> OrZero(StripLeadingZeros(int)),
     frac |-> StripTrailingZeros(frac)]

FloatZero == SignedZero(FALSE)
FloatNaN == [kind |-> "nan", neg |-> FALSE, int |-> "0", frac |-> ""]
FloatInf(neg) == [kind |-> "inf", neg |-> neg, int |-> "0", frac |-> ""]

\* the bits of the mantissa of a float64, the hidden one included
MantissaBits == 53
\* the binary exponent of the smallest normal float64
MinExponent == -1022
\* the binary exponent math.MaxFloat64 has; a number from 2^1024 on is out
\* of range
MaxExponent == 1023
\* the decimal places strconv follows a number to: with its point more
\* than 310 places after the first digit it is out of range, with more
\* than 330 zeros after the point it is zero
MaxDecimalPoint == 310
MinDecimalPoint == -330

SyntaxError == [ok |-> FALSE, parsed |-> FloatZero, err |-> "invalid syntax"]
RangeError(neg) == [ok |-> FALSE, parsed |-> FloatInf(neg), err |-> "value out of range"]
Parsed(x) == [ok |-> TRUE, parsed |-> x, err |-> ""]

\* the float64 with the digits p, the last places of them after the point
FloatOfDigits(neg, padded, places) ==
    Float(neg, SubSeq(padded, 1, Len(padded) - places),
          SubSeq(padded, Len(padded) - places + 1, Len(padded)))
FloatOfPlaces(neg, p, places) == FloatOfDigits(neg, Zeros(1 + places - Len(p)) \o p, places)

\* the float64 m * 2^e: for e < 0 it is m * 5^(-e) with -e digits after
\* the point
FloatOf(neg, m, e) ==
    IF m = <<>> THEN SignedZero(neg)
    ELSE FloatOfPlaces(neg,
                       DigitsOfNat(NatTimesPower(m, IF e >= 0 THEN 2 ELSE 5, IF e >= 0 THEN e ELSE -e)),
                       IF e >= 0 THEN 0 ELSE -e)

\* t doubled until t <= r < 2t, and the exponent with it
RECURSIVE BinaryExponent(_, _, _)
BinaryExponentOr(r, t, a, doubled) ==
    IF NatCmp(r, doubled) >= 0 THEN BinaryExponent(r, doubled, a + 1)
    ELSE [r |-> r, t |-> t, a |-> a]
BinaryExponent(r, t, a) == BinaryExponentOr(r, t, a, NatScale(t, 2, 0))

\* the mantissa m has its 53 binary digits, or the exponent e of its last
\* digit is the one of the smallest float64
QuotientDone(st) ==
    \/ st.e <= MinExponent - (MantissaBits - 1)
    \/ NatCmp(st.m, NatTimesPow2(<<1>>, MantissaBits - 1)) >= 0

\* One binary digit more of the mantissa; the number is (m + r / 2t) * 2^e
\* before and after
QuotientBit(st, t, bit) ==
    [m |-> NatScale(st.m, 2, bit),
     r |-> NatScale(IF bit = 1 THEN NatSub(st.r, t) ELSE st.r, 2, 0),
     e |-> st.e - 1]
QuotientStep(st, t) == QuotientBit(st, t, IF NatCmp(st.r, t) >= 0 THEN 1 ELSE 0)

\* at most n digits more, until the mantissa is done
RECURSIVE Quotient(_, _, _)
Quotient(st, t, n) ==
    IF n = 0 \/ QuotientDone(st) THEN st
    ELSE IF n = 1 THEN QuotientStep(st, t)
    ELSE Quotient(Quotient(st, t, n \div 2), t, n - n \div 2)

\* the float64 with the mantissa m and the exponent e of its last digit,
\* of a number with the binary exponent a
FloatOfMantissa(neg, a, m, e) ==
    IF e < MinExponent - (MantissaBits - 1) THEN Parsed(SignedZero(neg))
    ELSE IF a > MaxExponent THEN RangeError(neg)
    ELSE IF a = MaxExponent /\ NatCmp(m, NatTimesPow2(<<1>>, MantissaBits)) >= 0
    THEN RangeError(neg)
    ELSE Parsed(FloatOf(neg, m, e))

\* the mantissa rounded: rest is the rest of the division against half
\* a unit of the last digit
RoundMantissa(m, rest) ==
    IF rest > 0 \/ (rest = 0 /\ m # <<>> /\ m[1] % 2 = 1) THEN NatAdd(m, <<1>>) ELSE m

RoundQuotient(neg, at, div) ==
    FloatOfMantissa(neg, at.a, RoundMantissa(div.m, NatCmp(div.r, at.t)), div.e)

DivideAt(neg, at) ==
    RoundQuotient(neg, at, Quotient([m |-> <<>>, r |-> at.r, e |-> at.a + 1], at.t, MantissaBits))

\* the float64 nearest to n / q, a tie to the even mantissa; a0 is a
\* binary exponent not above the one of n / q and at most 8 below it
NearestFloat(neg, n, q, a0) ==
    IF n = <<>> THEN Parsed(SignedZero(neg))
    ELSE IF a0 > MaxExponent THEN RangeError(neg)
    ELSE IF a0 + 8 < MinExponent - MantissaBits THEN Parsed(SignedZero(neg))
    ELSE DivideAt(neg, BinaryExponent(NatTimesPow2(n, IF a0 >= 0 THEN 0 ELSE -a0),
                                      NatTimesPow2(q, IF a0 >= 0 THEN a0 ELSE 0), a0))

HasSign(s) == Len(s) > 0 /\ SubSeq(s, 1, 1) \in {"+", "-"}
Unsigned(s) == IF HasSign(s) THEN SubSeq(s, 2, Len(s)) ELSE s

\* strconv's special: infinity and not-a-number, in any case
SpecialNamed(s, rest) ==
    IF rest = "inf" \/ rest = "infinity" THEN Parsed(FloatInf(HasSign(s) /\ SubSeq(s, 1, 1) = "-"))
    ELSE IF ~HasSign(s) /\ rest = "nan" THEN Parsed(FloatNaN)
    ELSE SyntaxError
ParseSpecial(s) == SpecialNamed(s, ToLower(Unsigned(s)))

\* the decimal number with the digits and the point after place dp of them
DecimalAt(neg, digits, dp) ==
    IF digits = "" THEN Parsed(SignedZero(neg))
    ELSE IF dp > MaxDecimalPoint THEN RangeError(neg)
    ELSE IF dp < MinDecimalPoint THEN Parsed(SignedZero(neg))
    ELSE NearestFloat(neg,
                      NatTimesPow10(NatOfDigits(digits),
                                    IF dp >= Len(digits) THEN dp - Len(digits) ELSE 0),
                      NatTimesPow10(<<1>>, IF dp >= Len(digits) THEN 0 ELSE Len(digits) - dp),
                      IF dp >= 1 THEN ((dp - 1) * 33219) \div 10000
                      ELSE ((dp - 1) * 33220) \div 10000 - 1)

\* the decimal number with the digits ds and the point after place pt
\* of them (pt may lie before or after the digits)
ParseDecimal(neg, ds, pt) ==
    DecimalAt(neg, StripLeadingZeros(ds), pt - (Len(ds) - Len(StripLeadingZeros(ds))))

HexAt(neg, digits, e2) ==
    IF digits = "" THEN Parsed(SignedZero(neg))
    ELSE IF e2 > 2 * MaxExponent THEN RangeError(neg)
    ELSE IF e2 + 4 * Len(digits) < 2 * (MinExponent - MantissaBits)
    THEN Parsed(SignedZero(neg))
    ELSE NearestFloat(neg,
                      NatTimesPow2(NatOfHex(digits), IF e2 >= 0 THEN e2 ELSE 0),
                      NatTimesPow2(<<1>>, IF e2 >= 0 THEN 0 ELSE -e2),
                      4 * (Len(digits) - 1) + e2)

\* the hexadecimal number with the digits hs, times 2^e2
ParseHex(neg, hs, e2) == HexAt(neg, StripLeadingZeros(hs), e2)

IsMantissaChar(c, hex) == c = "_" \/ c = "." \/ IsDigit(c) \/ (hex /\ IsHexLetter(c))

\* the end of the mantissa that starts at place i: the first place of a
\* character that is no digit, underscore or point, or of a second point
MantissaEnd(s, i, hex) ==
    Least({j \in i..Len(s) : \/ ~IsMantissaChar(SubSeq(s, j, j), hex)
                             \/ SubSeq(s, j, j) = "." /\ \E h \in i..(j - 1) : SubSeq(s, h, h) = "."}
          \cup {Len(s) + 1})

\* the end of the digits and underscores of an exponent
ExponentEnd(s, i) ==
    Least({j \in i..Len(s) : ~(IsDigit(SubSeq(s, j, j)) \/ SubSeq(s, j, j) = "_")} \cup {Len(s) + 1})

\* the exponent the digits spell: if e < 10000 { e = e*10 + digit }, which
\* takes the digits until e has five of them
FirstFive(digits) == DigitsValue(SubSeq(digits, 1, IF Len(digits) > 5 THEN 5 ELSE Len(digits)))
ExponentValue(s) == FirstFive(StripLeadingZeros(s))

\* strconv's underscoreOK: an underscore follows a digit or the base
\* prefix, and a digit follows it
HasBasePrefix(t) ==
    Len(t) >= 2 /\ SubSeq(t, 1, 1) = "0" /\ SubSeq(t, 2, 2) \in {"b", "B", "o", "O", "x", "X"}

IsDigitAt(t, prefixed, j) ==
    /\ j >= (IF prefixed THEN 3 ELSE 1)
    /\ j <= Len(t)
    /\ \/ IsDigit(SubSeq(t, j, j))
       \/ prefixed /\ SubSeq(t, 2, 2) \in {"x", "X"} /\ IsHexLetter(SubSeq(t, j, j))

UnderscoresOK(t, prefixed) ==
    \A j \in (IF prefixed THEN 3 ELSE 1)..Len(t) :
        SubSeq(t, j, j) = "_" =>
            /\ IsDigitAt(t, prefixed, j - 1) \/ (prefixed /\ j = 3)
            /\ IsDigitAt(t, prefixed, j + 1)

underscoreOK(s) == UnderscoresOK(Unsigned(s), HasBasePrefix(Unsigned(s)))

\* readFloat's mantissa: the digits before and after the point
SplitAt(mantissa, point) ==
    [int |-> IF point = 0 THEN mantissa ELSE SubSeq(mantissa, 1, point - 1),
     frac |-> IF point = 0 THEN "" ELSE SubSeq(mantissa, point + 1, Len(mantissa))]
ReadMantissa(mantissa) == SplitAt(mantissa, IndexOf(mantissa, "."))

\* readFloat's exponent, from the place m1 where the mantissa ends: is
\* there one, has it a digit, its value, and the place where it ends
ExponentRead(s, m1, has, e0, e1) ==
    [has |-> has,
     digit |-> e0 <= Len(s) /\ IsDigit(SubSeq(s, e0, e0)),
     e |-> IF ~has THEN 0
           ELSE (IF e0 = m1 + 2 /\ SubSeq(s, m1 + 1, m1 + 1) = "-" THEN -1 ELSE 1)
                * ExponentValue(Without(SubSeq(s, e0, e1 - 1), "_")),
     end |-> IF has THEN e1 ELSE m1]
ExponentFrom(s, m1, has, e0) == ExponentRead(s, m1, has, e0, ExponentEnd(s, e0))
ExponentMarked(s, m1, has) ==
    ExponentFrom(s, m1, has,
                 m1 + 1 + (IF has /\ m1 + 1 <= Len(s) /\ SubSeq(s, m1 + 1, m1 + 1) \in {"+", "-"}
                           THEN 1 ELSE 0))
ReadExponent(s, m1, hex) ==
    ExponentMarked(s, m1, m1 <= Len(s) /\ SubSeq(s, m1, m1) \in (IF hex THEN {"p", "P"} ELSE {"e", "E"}))

\* the conversion of what readFloat has read: the mantissa m and the
\* exponent x
ConvertRead(value, hex, m, x) ==
    IF Len(m.int) + Len(m.frac) = 0 THEN SyntaxError
    ELSE IF x.has /\ ~x.digit THEN SyntaxError
    ELSE IF hex /\ ~x.has THEN SyntaxError
    ELSE IF ~underscoreOK(SubSeq(value, 1, x.end - 1)) THEN SyntaxError
    ELSE IF x.end <= Len(value) THEN SyntaxError
    ELSE IF hex
    THEN ParseHex(HasSign(value) /\ SubSeq(value, 1, 1) = "-", m.int \o m.frac, x.e - 4 * Len(m.frac))
    ELSE ParseDecimal(HasSign(value) /\ SubSeq(value, 1, 1) = "-", m.int \o m.frac, Len(m.int) + x.e)

\* the mantissa lies at the places m0..m1-1
ReadBetween(value, hex, m0, m1) ==
    ConvertRead(value, hex, ReadMantissa(Without(SubSeq(value, m0, m1 - 1), "_")),
                ReadExponent(value, m1, hex))
ReadFrom(value, hex, m0) == ReadBetween(value, hex, m0, MantissaEnd(value, m0, hex))
ReadAfterSign(value, i0, hex) == ReadFrom(value, hex, IF hex THEN i0 + 2 ELSE i0)
ReadSigned(value, i0) ==
    ReadAfterSign(value, i0, i0 + 2 <= Len(value) /\ SubSeq(value, i0, i0) = "0"
                             /\ SubSeq(value, i0 + 1, i0 + 1) \in {"x", "X"})

\* strconv's readFloat and the conversion of what it read: sign, base
\* prefix, mantissa, exponent
ParseNumber(value) == ReadSigned(value, IF HasSign(value) THEN 2 ELSE 1)

\* strconv.ParseFloat(value, 64): the nearest float64 of a decimal or a
\* hexadecimal numeral, an infinity or not-a-number
SpecialOr(special, value) == IF special.ok THEN special ELSE ParseNumber(value)
ParseFloatOf(value) == SpecialOr(ParseSpecial(value), value)

\* ParseFloatOf of the values the measures of the model have, computed once
ParsedOfUsual ==
    [value \in {"", "0", "0x1p-2", "1.005", "12.5", "70.0", "81.25", "82.7", "n/a"} |->
        ParseFloatOf(value)]

UsualOr(usual, value) == IF value \in DOMAIN usual THEN usual[value] ELSE ParseFloatOf(value)
ParseFloat(value) == UsualOr(ParsedOfUsual, value)

\* a string of digits plus one: the digit at the place last grows, the
\* nines after it are zeros
IncrementAt(s, last) ==
    IF last = 0 THEN "1" \o Zeros(Len(s))
    ELSE SubSeq(s, 1, last - 1)
         \o LetterAt(Digits, PlaceIn(DigitPlaces, SubSeq(s, last, last)) + 1, "")
         \o Zeros(Len(s) - last)
Increment(s) == IncrementAt(s, Greatest({j \in 1..Len(s) : SubSeq(s, j, j) # "9"} \cup {0}))

\* the third digit after the point
ThirdPlace(rest) == IF Len(rest) = 0 THEN 0 ELSE PlaceIn(DigitPlaces, SubSeq(rest, 1, 1)) - 1

\* the digits after the second are above a half, or a half and the second
\* digit odd
RoundsUp(two, rest, third) ==
    \/ third > 5
    \/ third = 5 /\ (Len(rest) > 1 \/ (PlaceIn(DigitPlaces, SubSeq(two, 2, 2)) - 1) % 2 = 1)

WithPoint(all) == SubSeq(all, 1, Len(all) - 2) \o "." \o SubSeq(all, Len(all) - 1, Len(all))

FormatPlaces(int, two, rest) ==
    WithPoint(IF RoundsUp(two, rest, ThirdPlace(rest)) THEN Increment(int \o two) ELSE int \o two)

\* fmt.Sprintf("%.2f", x): two places after the point, the rest of the
\* expansion rounded to the nearest and a tie to the even digit
FormatCoverage(x) ==
    CASE x.kind = "nan" -> "NaN"
      [] x.kind = "inf" -> (IF x.neg THEN "-Inf" ELSE "+Inf")
      [] OTHER -> (IF x.neg THEN "-" ELSE "")
                  \o FormatPlaces(x.int, SubSeq(x.frac \o "00", 1, 2), SubSeq(x.frac, 3, Len(x.frac)))

Plus3  == <<"+", "+", "+">>
Minus3 == <<"-", "-", "-">>
AtAt   == <<"@", "@">>

\* ---------------------------------------------------------------------
\* Diff lines.  A line is its text plus, for a line that starts with "@@",
\* what diffHunkHeaderRegex captures from it: matches (the regex matched)
\* and the two numbers of the groups (\d+).
\* ---------------------------------------------------------------------
TextLine(t) == [text |-> t, matches |-> FALSE, oldStart |-> 0, newStart |-> 0]
HunkHeader(o, n) == [text |-> AtAt, matches |-> TRUE, oldStart |-> o, newStart |-> n]
BadHeader == [text |-> AtAt, matches |-> FALSE, oldStart |-> 0, newStart |-> 0]

lineTypeAdded == 1
lineTypeContext == 2

lineInfo(t, o, n) == [lineType |-> t, oldLine |-> o, newLine |-> n]

\* m[k] = v of a Go map
MapSet(m, k, v) == [x \in (DOMAIN m) \cup {k} |-> IF x = k THEN v ELSE m[x]]

EmptyMap == [x \in {} |-> 0]

\* m2 laid over m1: the writes of m2 after those of m1 (the loop at
\* main.go:390-392)
Overlay(m1, m2) ==
    [k \in (DOMAIN m1) \cup (DOMAIN m2) |-> IF k \in DOMAIN m2 THEN m2[k] ELSE m1[k]]

\* parseDiffHunkHeader: ok is FALSE when the regex does not match or
\* newStart <= 0 (the groups are \d+, so neither number is negative).
parseDiffHunkHeader_NoNewCheck(line) ==
    IF ~line.matches THEN [oldStart |-> 0, newStart |-> 0, ok |-> FALSE]
    ELSE [oldStart |-> line.oldStart, newStart |-> line.newStart, ok |-> TRUE]

parseDiffHunkHeader(line) ==
    IF ~line.matches THEN [oldStart |-> 0, newStart |-> 0, ok |-> FALSE]
    ELSE IF line.oldStart < 0 THEN [oldStart |-> 0, newStart |-> 0, ok |-> FALSE]
    ELSE IF line.newStart <= 0 THEN [oldStart |-> 0, newStart |-> 0, ok |-> FALSE]
    ELSE [oldStart |-> line.oldStart, newStart |-> line.newStart, ok |-> TRUE]

\* The state of the loop of extractDiffLines
ExtractInit ==
    [result |-> EmptyMap, currentOldLine |-> 0, currentNewLine |-> 0, inHunk |-> FALSE]

\* The "@@" branch of the loop: a header that parses re-synchronizes both
\* cursors, one that does not leaves the hunk.
OnHunkHeader_KeepOldCursor(st, line) ==
    LET h == parseDiffHunkHeader(line) IN
    IF ~h.ok THEN [st EXCEPT !.inHunk = FALSE]
    ELSE [st EXCEPT !.inHunk = TRUE, !.currentNewLine = h.newStart]

OnHunkHeader(st, line) ==
    LET h == parseDiffHunkHeader(line) IN
    IF ~h.ok THEN [st EXCEPT !.inHunk = FALSE]
    ELSE [st EXCEPT !.inHunk = TRUE,
                    !.currentOldLine = h.oldStart,
                    !.currentNewLine = h.newStart]

\* a "+++" line is indexed like any added line
OnAddedLine_IndexesMarker(st, line) ==
    [st EXCEPT
        !.result = MapSet(st.result, st.currentNewLine,
                          lineInfo(lineTypeAdded, 0, st.currentNewLine)),
        !.currentNewLine = st.currentNewLine + 1]

\* case strings.HasPrefix(line, "+")
OnAddedLine(st, line) ==
    IF HasPrefix(line.text, Plus3) THEN st
    ELSE [st EXCEPT
            !.result = MapSet(st.result, st.currentNewLine,
                              lineInfo(lineTypeAdded, 0, st.currentNewLine)),
            !.currentNewLine = st.currentNewLine + 1]

\* case strings.HasPrefix(line, "-")
OnRemovedLine(st, line) ==
    IF HasPrefix(line.text, Minus3) THEN st
    ELSE [st EXCEPT !.currentOldLine = st.currentOldLine + 1]

\* case strings.HasPrefix(line, " ")
OnContextLine(st, line) ==
    [st EXCEPT
        !.result = MapSet(st.result, st.currentNewLine,
                          lineInfo(lineTypeContext, st.currentOldLine, st.currentNewLine)),
        !.currentOldLine = st.currentOldLine + 1,
        !.currentNewLine = st.currentNewLine + 1]

\* One iteration of the loop of extractDiffLines
ExtractLine(st, line) ==
    IF HasPrefix(line.text, AtAt) THEN OnHunkHeader(st, line)
    ELSE IF ~st.inHunk THEN st
    ELSE IF HasPrefix(line.text, <<"+">>) THEN OnAddedLine(st, line)
    ELSE IF HasPrefix(line.text, <<"-">>) THEN OnRemovedLine(st, line)
    ELSE IF HasPrefix(line.text, <<" ">>) THEN OnContextLine(st, line)
    ELSE st

RECURSIVE ExtractFrom(_, _, _)
ExtractFrom(st, lines, i) ==
    IF i > Len(lines) THEN st
    ELSE ExtractFrom(ExtractLine(st, lines[i]), lines, i + 1)

\* extractDiffLines(diff): the map new line -> lineInfo
extractDiffLines(lines) == ExtractFrom(ExtractInit, lines, 1).result

\* ---------------------------------------------------------------------
\* Paths and the diff line index
\* ---------------------------------------------------------------------
\* strings.TrimLeft and strings.TrimRight with the characters of a cutset
RECURSIVE TrimLeft(_, _)
TrimLeft(s, cutset) ==
    IF s # <<>> /\ s[1] \in cutset THEN TrimLeft(Tail(s), cutset) ELSE s

RECURSIVE TrimRight(_, _)
TrimRight(s, cutset) ==
    IF s # <<>> /\ s[Len(s)] \in cutset THEN TrimRight(SubSeq(s, 1, Len(s) - 1), cutset) ELSE s

\* strings.TrimSpace of a path: the white space at its two ends goes
TrimSpace(s) == TrimRight(TrimLeft(s, WhiteSpace), WhiteSpace)

\* strings.TrimPrefix
TrimPrefix(s, p) == IF HasPrefix(s, p) THEN SubSeq(s, Len(p) + 1, Len(s)) ELSE s

\* strings.Trim(s, "/")
TrimSlashes(s) == TrimRight(TrimLeft(s, {"/"}), {"/"})

normalizeRepoPath(path) ==
    TrimSlashes(TrimPrefix(TrimSpace(path), <<".", "/">>))

MergeRequestChange(o, n, d) == [OldPath |-> o, NewPath |-> n, Diff |-> d]

\* the old path of a renamed file is forgotten
pathInfo_NewPathOnly(o, n) == [oldPath |-> n, newPath |-> n]

pathInfo(o, n) == [oldPath |-> o, newPath |-> n]

EmptyIndex == [lines |-> EmptyMap, pathMap |-> EmptyMap]

\* a change whose diff shows no line is given an empty line map
IndexChange_KeepsEmptyFiles(index, change) ==
    LET path == normalizeRepoPath(change.NewPath)
        lines == extractDiffLines(change.Diff)
        before == IF path \in DOMAIN index.lines THEN index.lines[path] ELSE EmptyMap
    IN  IF path = <<>> THEN index
        ELSE [lines |-> MapSet(index.lines, path, Overlay(before, lines)),
              pathMap |-> MapSet(index.pathMap, path,
                                 pathInfo(change.OldPath, change.NewPath))]

\* One iteration of the loop of buildDiffLineIndex: the lines of a change
\* are written into the line map its path may already have, and the path
\* identity is replaced.
IndexChange(index, change) ==
    LET path == normalizeRepoPath(change.NewPath)
        lines == extractDiffLines(change.Diff)
        before == IF path \in DOMAIN index.lines THEN index.lines[path] ELSE EmptyMap
    IN  IF path = <<>> THEN index
        ELSE IF DOMAIN lines = {} THEN index
        ELSE [lines |-> MapSet(index.lines, path, Overlay(before, lines)),
              pathMap |-> MapSet(index.pathMap, path,
                                 pathInfo(change.OldPath, change.NewPath))]

RECURSIVE BuildFrom(_, _, _)
BuildFrom(index, changes, i) ==
    IF i > Len(changes) THEN index
    ELSE BuildFrom(IndexChange(index, changes[i]), changes, i + 1)

buildDiffLineIndex(changes) == BuildFrom(EmptyIndex, changes, 1)

Issue(k, sev, f, l) ==
    [Key |-> k, Rule |-> "go:S100", Severity |-> sev, Message |-> k,
     FilePath |-> f, Line |-> l]

\* The test of the loop of filterIssuesByMRDiff: TRUE when the issue is kept
MatchesDiff_PathOnly(issue, index) ==
    LET path == normalizeRepoPath(issue.FilePath) IN
    /\ ~(path = <<>> \/ issue.Line <= 0)
    /\ path \in DOMAIN index.lines

MatchesDiff(issue, index) ==
    LET path == normalizeRepoPath(issue.FilePath) IN
    IF path = <<>> \/ issue.Line <= 0 THEN FALSE
    ELSE IF path \notin DOMAIN index.lines THEN FALSE
    ELSE IF issue.Line \notin DOMAIN index.lines[path] THEN FALSE
    ELSE TRUE

RECURSIVE FilterFrom(_, _, _, _)
FilterFrom(filtered, issues, index, i) ==
    IF i > Len(issues) THEN filtered
    ELSE FilterFrom(IF MatchesDiff(issues[i], index) THEN Append(filtered, issues[i])
                    ELSE filtered,
                    issues, index, i + 1)

filterIssuesByMRDiff(issues, index) == FilterFrom(<<>>, issues, index, 1)

\* ---------------------------------------------------------------------
\* Severities (internal/sonar/severity.go)
\* ---------------------------------------------------------------------
\* the capitals of U+00FF and of U+00B5 (U+0178 and U+039C), by their names
CapitalYDiaeresis == "(LATIN CAPITAL LETTER Y WITH DIAERESIS)"
CapitalMu         == "(GREEK CAPITAL LETTER MU)"

\* unicode.ToUpper of one character
UpperOf(c) ==
    IF PlaceIn(LowerPlaces, c) > 0
    THEN SubSeq(UpperLetters, PlaceIn(LowerPlaces, c), PlaceIn(LowerPlaces, c))
    ELSE IF c = "ÿ" THEN CapitalYDiaeresis
    ELSE IF c = "µ" THEN CapitalMu
    ELSE c

\* strings.ToUpper, character by character
RECURSIVE UpperFrom(_)
UpperFrom(s) ==
    IF Len(s) = 0 THEN s
    ELSE IF Len(s) = 1 THEN UpperOf(s)
    ELSE UpperFrom(SubSeq(s, 1, Len(s) \div 2)) \o UpperFrom(SubSeq(s, Len(s) \div 2 + 1, Len(s)))

\* UpperFrom of the usual spellings of the severities, computed once
UpperOfUsual ==
    [s \in {"BLOCKER", "CRITICAL", "MAJOR", "MINOR", "INFO",
            "blocker", "critical", "major", "minor", "info"} |-> UpperFrom(s)]

\* strings.ToUpper
ToUpper(s) == IF s \in DOMAIN UpperOfUsual THEN UpperOfUsual[s] ELSE UpperFrom(s)

NormalizeSeverity(s) == ToUpper(s)

AllowedSeverities == <<"INFO", "MINOR", "MAJOR", "CRITICAL", "BLOCKER">>

IsValidSeverity(s) ==
    \E i \in 1..Len(AllowedSeverities) : AllowedSeverities[i] = NormalizeSeverity(s)

\* the place of a valid severity in INFO < MINOR < MAJOR < CRITICAL < BLOCKER
severityRank(s) ==
    CHOOSE i \in 1..Len(AllowedSeverities) : AllowedSeverities[i] = NormalizeSeverity(s)

\* a finding exactly at the threshold is dropped
KeepsSeverity_Strict(issue, threshold) ==
    \/ threshold = ""
    \/ /\ IsValidSeverity(issue.Severity)
       /\ severityRank(issue.Severity) > severityRank(threshold)

KeepsSeverity(issue, threshold) ==
    \/ threshold = ""
    \/ /\ IsValidSeverity(issue.Severity)
       /\ severityRank(issue.Severity) >= severityRank(threshold)

RECURSIVE SeverityFrom(_, _, _, _)
SeverityFrom(kept, issues, threshold, i) ==
    IF i > Len(issues) THEN kept
    ELSE SeverityFrom(IF KeepsSeverity(issues[i], threshold) THEN Append(kept, issues[i])
                      ELSE kept,
                      issues, threshold, i + 1)

FilterIssuesBySeverity(issues, threshold) == SeverityFrom(<<>>, issues, threshold, 1)

\* ---------------------------------------------------------------------
\* Comment bodies.  A body is the sequence of its lines and a line the
\* sequence of the pieces it is written from; its text is the pieces of
\* every line one after the other and "\n" between the lines.
\* ---------------------------------------------------------------------
commentMarker == "<!-- sonar-gitlab-commenter -->"
summaryHeading == "**SonarQube summary**"
summarySeverityOrder == <<"BLOCKER", "CRITICAL", "MAJOR", "MINOR", "INFO">>

\* the text of a line
RECURSIVE LineText(_)
LineText(line) == IF Len(line) = 0 THEN "" ELSE line[1] \o LineText(Tail(line))

\* the text of a body
RECURSIVE BodyText(_)
BodyText(body) ==
    IF Len(body) = 0 THEN ""
    ELSE IF Len(body) = 1 THEN LineText(body[1])
    ELSE LineText(body[1]) \o "\n" \o BodyText(Tail(body))

\* strings.Contains of two strings: substr begins at some place of s
ContainsString(s, substr) ==
    /\ Len(substr) <= Len(s)
    /\ \E k \in 0..(Len(s) - Len(substr)) : SubSeq(s, k + 1, k + Len(substr)) = substr

\* strings.Contains of the text of a body: substr lies within a line, or
\* it holds a "\n" and lies across lines
Contains(body, substr) ==
    \/ \E i \in 1..Len(body) : ContainsString(LineText(body[i]), substr)
    \/ /\ Len(substr) = 0 \/ ContainsString(substr, "\n")
       /\ ContainsString(BodyText(body), substr)

commentHasMarker(body) == Contains(body, commentMarker)

isSummaryNote(body) == commentHasMarker(body) /\ Contains(body, summaryHeading)

discussionContainsMarker(discussion) ==
    \E i \in 1..Len(discussion.Notes) : commentHasMarker(discussion.Notes[i].Body)

\* the test at main.go:558-563: TRUE when the discussion is to be resolved
IsStaleSonarDiscussion_AnyOpen(discussion) ==
    ~(discussion.Resolved \/ ~discussion.Resolvable)

IsStaleSonarDiscussion_Never(discussion) == FALSE

IsStaleSonarDiscussion(discussion) ==
    IF discussion.Resolved \/ ~discussion.Resolvable THEN FALSE
    ELSE IF ~discussionContainsMarker(discussion) THEN FALSE
    ELSE TRUE

NoNote == [ID |-> 0, Body |-> <<>>]

RECURSIVE LatestFrom_LastMatch(_, _, _)
LatestFrom_LastMatch(acc, notes, i) ==
    IF i > Len(notes) THEN acc
    ELSE IF ~isSummaryNote(notes[i].Body) THEN LatestFrom_LastMatch(acc, notes, i + 1)
    ELSE LatestFrom_LastMatch([found |-> TRUE, latestOne |-> notes[i]], notes, i + 1)

RECURSIVE LatestFrom(_, _, _)
LatestFrom(acc, notes, i) ==
    IF i > Len(notes) THEN acc
    ELSE IF ~isSummaryNote(notes[i].Body) THEN LatestFrom(acc, notes, i + 1)
    ELSE IF ~acc.found \/ notes[i].ID > acc.latestOne.ID
         THEN LatestFrom([found |-> TRUE, latestOne |-> notes[i]], notes, i + 1)
    ELSE LatestFrom(acc, notes, i + 1)

findLatestSummaryNote_NeverFound(notes) == [found |-> FALSE, latestOne |-> NoNote]

findLatestSummaryNote(notes) ==
    LatestFrom([found |-> FALSE, latestOne |-> NoNote], notes, 1)

splitIssuesByLineBinding(issues) ==
    [inlineIssues |->
        SelectSeq(issues, LAMBDA i : ~(TrimSpace(i.FilePath) = <<>> \/ i.Line <= 0)),
     projectLevelIssues |->
        SelectSeq(issues, LAMBDA i : TrimSpace(i.FilePath) = <<>> \/ i.Line <= 0)]

\* the backquote that the formats put around a value
Quoted == "(backquote)"

\* issue.Type as main.go reads it (main.go:659, 697): sonar.Issue of
\* internal/sonar/client.go has no such field and FetchProjectIssues sets
\* none, so that a finding of the client has the empty type; the findings
\* the tests of main.go build have one
IssueType(issue) == IF "Type" \in DOMAIN issue THEN issue.Type ELSE ""

\* the marker line is left out of the inline comment
formatInlineIssueComment_NoMarker(issue) ==
    <<<<"**SonarQube issue**">>,
      <<"- Severity: ", Quoted, TrimSpaceString(issue.Severity), Quoted>>,
      <<"- Type: ", Quoted, TrimSpaceString(IssueType(issue)), Quoted>>,
      <<"- Message: ", TrimSpaceString(issue.Message)>>,
      <<"- Rule key: ", Quoted, TrimSpaceString(issue.Rule), Quoted>>>>

formatInlineIssueComment(issue) ==
    <<<<commentMarker>>,
      <<"**SonarQube issue**">>,
      <<"- Severity: ", Quoted, TrimSpaceString(issue.Severity), Quoted>>,
      <<"- Type: ", Quoted, TrimSpaceString(IssueType(issue)), Quoted>>,
      <<"- Message: ", TrimSpaceString(issue.Message)>>,
      <<"- Rule key: ", Quoted, TrimSpaceString(issue.Rule), Quoted>>>>

\* the three signs the quality gate is shown with (U+2705, U+274C and
\* U+26A0 U+FE0F), by their names
CheckMark   == "(white heavy check mark)"
CrossMark   == "(cross mark)"
WarningSign == "(warning sign)"

formatQualityGateStatus(status) ==
    LET normalized == ToLower(TrimSpaceString(status)) IN
    CASE normalized = "passed" -> CheckMark \o " **passed**"
      [] normalized = "failed" -> CrossMark \o " **failed**"
      [] OTHER -> WarningSign \o " **warning**"

\* the severities are counted as they are spelled
CountSeverity_AsSpelled(issues, severity) ==
    Cardinality({i \in 1..Len(issues) : issues[i].Severity = severity})

CountSeverity(issues, severity) ==
    Cardinality({i \in 1..Len(issues) : NormalizeSeverity(issues[i].Severity) = severity})

unknownSeverityCount(issues) ==
    Cardinality({i \in 1..Len(issues) : ~IsValidSeverity(issues[i].Severity)})

formatMergeRequestSummaryComment(qualityReport, issues, projectLevelIssues) ==
    <<<<commentMarker>>,
      <<summaryHeading>>,
      <<"- Quality gate: ", formatQualityGateStatus(qualityReport.QualityGateStatus)>>,
      <<"- Overall coverage: ", FormatCoverage(qualityReport.OverallCoverage), "%">>,
      <<"- New code coverage: ", FormatCoverage(qualityReport.NewCodeCoverage), "%">>,
      <<"- Total issues: ", ToString(Len(issues))>>,
      <<>>,
      <<"**Issues by severity**">>>>
    \o [i \in 1..Len(summarySeverityOrder) |->
          <<"- ", summarySeverityOrder[i], ": ",
            ToString(CountSeverity(issues, summarySeverityOrder[i]))>>]
    \o (IF unknownSeverityCount(issues) > 0
        THEN <<<<"- UNKNOWN: ", ToString(unknownSeverityCount(issues))>>>>
        ELSE <<>>)
    \o (IF Len(projectLevelIssues) > 0
        THEN <<<<>>, <<"**SonarQube issues without line binding**">>>>
             \o [i \in 1..Len(projectLevelIssues) |->
                   <<ToString(i), ". [", TrimSpaceString(projectLevelIssues[i].Severity), "][",
                     TrimSpaceString(IssueType(projectLevelIssues[i])), "] ",
                     TrimSpaceString(projectLevelIssues[i].Message),
                     " (rule ", Quoted, TrimSpaceString(projectLevelIssues[i].Rule),
                     Quoted, ")">>]
        ELSE <<>>)

\* ---------------------------------------------------------------------
\* The SonarQube client (internal/sonar/client.go)
\* ---------------------------------------------------------------------
\* the position of the first ":" of s (0: none)
RECURSIVE IndexOfColon(_, _)
IndexOfColon(s, i) ==
    IF i > Len(s) THEN 0
    ELSE IF s[i] = ":" THEN i
    ELSE IndexOfColon(s, i + 1)

extractFilePath(component) ==
    LET c == TrimSpace(component)
        idx == IndexOfColon(c, 1)
    IN  IF c = <<>> THEN <<>>
        ELSE IF idx >= 1 /\ idx < Len(c) THEN SubSeq(c, idx + 1, Len(c))
        ELSE c

apiIssue(k, sev, component, l) ==
    [key |-> k, rule |-> "go:S100", severity |-> sev, message |-> k,
     component |-> component, line |-> l]

\* the loop at client.go:137-151 over the issues of a page
RECURSIVE IssuesFrom(_, _, _)
IssuesFrom(allIssues, payload, i) ==
    IF i > Len(payload) THEN allIssues
    ELSE LET filePath == extractFilePath(payload[i].component) IN
         IF filePath = <<>> \/ payload[i].line <= 0
         THEN IssuesFrom(allIssues, payload, i + 1)
         ELSE IssuesFrom(Append(allIssues,
                    [Key |-> payload[i].key, Rule |-> payload[i].rule,
                     Severity |-> payload[i].severity,
                     Message |-> payload[i].message, FilePath |-> filePath,
                     Line |-> payload[i].line]),
                  payload, i + 1)

\* FetchProjectIssues on a host that answers with one page
FetchProjectIssues(payload) == IssuesFrom(<<>>, payload, 1)

\* ---------------------------------------------------------------------
\* The GitLab client (internal/gitlab/client.go)
\* ---------------------------------------------------------------------
\* what CreateInlineDiscussion refuses before it sends anything
DiffRefs(base, start, head) == [BaseSHA |-> base, StartSHA |-> start, HeadSHA |-> head]

\* the diff refs of an answer that has none: the zero value
NoDiffRefs == DiffRefs("", "", "")
CompleteDiffRefs == DiffRefs("base", "start", "head")

normalizeDiffRefs(diffRefs) ==
    DiffRefs(TrimSpaceString(diffRefs.BaseSHA), TrimSpaceString(diffRefs.StartSHA),
             TrimSpaceString(diffRefs.HeadSHA))

\* validateDiffRefs: TRUE when it returns nil
validateDiffRefs(diffRefs) ==
    ~(diffRefs.BaseSHA = "" \/ diffRefs.StartSHA = "" \/ diffRefs.HeadSHA = "")

\* strings.TrimSpace(body) == "" of a body held as lines of pieces
BodyIsBlank(body) ==
    \A i \in 1..Len(body) : \A j \in 1..Len(body[i]) : TrimSpaceString(body[i][j]) = ""

InlineArgumentsValid(body, oldPath, newPath, oldLine, newLine, diffRefs) ==
    /\ ~BodyIsBlank(body)
    /\ ~(TrimSpace(oldPath) = <<>> /\ TrimSpace(newPath) = <<>>)
    /\ ~(oldLine <= 0 /\ newLine <= 0)
    /\ validateDiffRefs(normalizeDiffRefs(diffRefs))

\* the form CreateInlineDiscussion posts: a line number is set when
\* positive
InlineForm_AlwaysBothLines(body, oldPath, newPath, oldLine, newLine, diffRefs) ==
    ("body" :> body) @@
    ("position[position_type]" :> "text") @@
    ("position[base_sha]" :> normalizeDiffRefs(diffRefs).BaseSHA) @@
    ("position[start_sha]" :> normalizeDiffRefs(diffRefs).StartSHA) @@
    ("position[head_sha]" :> normalizeDiffRefs(diffRefs).HeadSHA) @@
    ("position[old_path]" :> TrimSpace(oldPath)) @@
    ("position[new_path]" :> TrimSpace(newPath)) @@
    ("position[old_line]" :> oldLine) @@
    ("position[new_line]" :> newLine)

InlineForm(body, oldPath, newPath, oldLine, newLine, diffRefs) ==
    ("body" :> body) @@
    ("position[position_type]" :> "text") @@
    ("position[base_sha]" :> normalizeDiffRefs(diffRefs).BaseSHA) @@
    ("position[start_sha]" :> normalizeDiffRefs(diffRefs).StartSHA) @@
    ("position[head_sha]" :> normalizeDiffRefs(diffRefs).HeadSHA) @@
    ("position[old_path]" :> TrimSpace(oldPath)) @@
    ("position[new_path]" :> TrimSpace(newPath)) @@
    (IF oldLine > 0 THEN ("position[old_line]" :> oldLine) ELSE EmptyMap) @@
    (IF newLine > 0 THEN ("position[new_line]" :> newLine) ELSE EmptyMap)

\* a request of the run as the host sees it
Call(op, target, outcome, form) ==
    [op |-> op, target |-> target, outcome |-> outcome, form |-> form]

\* ---------------------------------------------------------------------
\* Well-formed unified diffs.  In a hunk body the FIRST character alone
\* says what a line is: "+" added, "-" removed, " " context, "\" the
\* no-newline marker.  The counts of a header are those of its body, so
\* they are derived and not stored.
\* ---------------------------------------------------------------------
IsHeaderLine(line)  == HasPrefix(line.text, AtAt)
IsAddedLine(line)   == HasPrefix(line.text, <<"+">>)
IsRemovedLine(line) == HasPrefix(line.text, <<"-">>)
IsContextLine(line) == HasPrefix(line.text, <<" ">>)
IsNoNewline(line)   == HasPrefix(line.text, <<"\\">>)

\* the index of the header of the hunk that line i belongs to (0: none)
RECURSIVE HunkOf(_, _)
HunkOf(lines, i) ==
    IF i = 0 THEN 0
    ELSE IF IsHeaderLine(lines[i]) THEN i
    ELSE HunkOf(lines, i - 1)

\* the lines of the body of the hunk whose header is at h
HunkBody(lines, h) ==
    {i \in (h + 1)..Len(lines) : HunkOf(lines, i) = h}

OldCount(lines, h) ==
    Cardinality({i \in HunkBody(lines, h) : IsRemovedLine(lines[i]) \/ IsContextLine(lines[i])})

NewCount(lines, h) ==
    Cardinality({i \in HunkBody(lines, h) : IsAddedLine(lines[i]) \/ IsContextLine(lines[i])})

Headers(lines) == {i \in 1..Len(lines) : IsHeaderLine(lines[i])}

WellFormedDiff(lines) ==
    /\ Len(lines) >= 1
    /\ IsHeaderLine(lines[1])
    /\ \A i \in 1..Len(lines) :
          \/ IsHeaderLine(lines[i]) /\ lines[i].matches
          \/ IsAddedLine(lines[i]) \/ IsRemovedLine(lines[i]) \/ IsContextLine(lines[i])
          \/ IsNoNewline(lines[i]) /\ i > 1 /\ ~IsHeaderLine(lines[i - 1])
          \/ lines[i].text = <<>> /\ i = Len(lines)
    /\ \A h \in Headers(lines) :
          \* a side that starts at 0 has no lines
          /\ (lines[h].oldStart = 0) => (OldCount(lines, h) = 0)
          /\ (lines[h].newStart = 0) => (NewCount(lines, h) = 0)
          /\ OldCount(lines, h) + NewCount(lines, h) > 0
    /\ \A h1, h2 \in Headers(lines) :
          h1 < h2 =>
            /\ lines[h1].oldStart + OldCount(lines, h1) <= lines[h2].oldStart
            /\ lines[h1].newStart + NewCount(lines, h1) <= lines[h2].newStart

\* ---------------------------------------------------------------------
\* Inputs of the diff parser
\* ---------------------------------------------------------------------
SeqsUpTo(S, n) == UNION {[1..k -> S] : k \in 0..n}

LineKinds ==
    {HunkHeader(0, 1), HunkHeader(2, 3), HunkHeader(1, 0), BadHeader,
     TextLine(<<"+", "x">>), TextLine(Plus3),
     TextLine(<<"-", "x">>), TextLine(Minus3),
     TextLine(<<" ", "x">>), TextLine(<<"\\">>), TextLine(<<>>)}

\* the diff of TestExtractDiffLines
ScenarioDiff ==
    <<HunkHeader(5, 10), TextLine(<<"+", "x">>), TextLine(<<"+", "x">>), TextLine(<<"+", "x">>),
      HunkHeader(20, 40), TextLine(<<"-", "x">>), TextLine(<<"+", "x">>), TextLine(<<" ", "x">>)>>

DiffInputs == SeqsUpTo(LineKinds, MaxDiffLen) \cup {ScenarioDiff}

\* ---------------------------------------------------------------------
\* State
\* ---------------------------------------------------------------------
VARIABLES
    diff,            \* extractDiffLines: the lines of the diff text
    pos,             \* extractDiffLines: the lines consumed so far
    result,          \* extractDiffLines: result
    currentOldLine,  \* extractDiffLines: currentOldLine
    currentNewLine,  \* extractDiffLines: currentNewLine
    inHunk,          \* extractDiffLines: inHunk
    changesIn,       \* buildDiffLineIndex: changes
    issuesIn,        \* filterIssuesByMRDiff: issues
    index,           \* the diffLineIndex built from changesIn
    filtered,        \* filterIssuesByMRDiff: filtered
    mpc,             \* where the matcher stands: "build", "filter", "done"
    discussions,     \* GitLab: the discussions of the merge request
    notes,           \* GitLab: the notes of the merge request, oldest first
    notes0,          \* the notes before the first run (history)
    run,             \* the locals of runWith, per process
    runsStarted      \* the number of runs started so far

diffVars == <<diff, pos, result, currentOldLine, currentNewLine, inHunk>>
matchVars == <<changesIn, issuesIn, index, filtered, mpc>>
hostVars == <<discussions, notes, notes0>>
runVars == <<hostVars, run, runsStarted>>
vars == <<diffVars, matchVars, runVars>>

\* the parts of the state a specification does not use stay as they are here
DiffIdle ==
    /\ diff = <<>>
    /\ pos = 0
    /\ result = EmptyMap
    /\ currentOldLine = 0
    /\ currentNewLine = 0
    /\ inHunk = FALSE

MatchIdle ==
    /\ changesIn = <<>>
    /\ issuesIn = <<>>
    /\ index = EmptyIndex
    /\ filtered = <<>>
    /\ mpc = "idle"

NoErr == [prefix |-> "", cause |-> "none"]

\* runWith before it is called
IdleRun ==
    [pc |-> "idle", n |-> 0,
     cfg |-> [DryRun |-> FALSE, SeverityThreshold |-> ""],
     diffRefs |-> NoDiffRefs,
     changes |-> <<>>,
     diffLineIndex |-> EmptyIndex,
     fetched |-> <<>>,
     issues |-> <<>>, inlineIssues |-> <<>>, projectLevelIssues |-> <<>>,
     qualityReport |-> [QualityGateStatus |-> "", OverallCoverage |-> FloatZero,
                        NewCodeCoverage |-> FloatZero],
     discussions |-> <<>>, di |-> 1, ii |-> 1,
     resolvedDiscussionsCount |-> 0, postedInlineCount |-> 0,
     publishedCommentsCount |-> 0, summaryAction |-> "",
     notes |-> <<>>, err |-> NoErr, calls |-> <<>>, stdout |-> <<>>,
     page |-> 0, paging |-> [pageSize |-> 0, total |-> 0],
     items |-> <<>>, listed |-> <<>>, expiredAfter |-> -1]

Procs == {1, 2}

RunIdle ==
    /\ discussions = <<>>
    /\ notes = <<>>
    /\ notes0 = <<>>
    /\ run = [r \in Procs |-> IdleRun]
    /\ runsStarted = 0

ParserState ==
    [result |-> result, currentOldLine |-> currentOldLine,
     currentNewLine |-> currentNewLine, inHunk |-> inHunk]

\* ---------------------------------------------------------------------
\* extractDiffLines, line by line
\* ---------------------------------------------------------------------
DiffInit ==
    /\ diff \in DiffInputs
    /\ pos = 0
    /\ result = ExtractInit.result
    /\ currentOldLine = ExtractInit.currentOldLine
    /\ currentNewLine = ExtractInit.currentNewLine
    /\ inHunk = ExtractInit.inHunk
    /\ MatchIdle
    /\ RunIdle

\* the loop body at main.go:475-521 on the next line of the diff
ExtractStep ==
    /\ pos < Len(diff)
    /\ LET st == ExtractLine(ParserState, diff[pos + 1]) IN
        /\ result' = st.result
        /\ currentOldLine' = st.currentOldLine
        /\ currentNewLine' = st.currentNewLine
        /\ inHunk' = st.inHunk
    /\ pos' = pos + 1
    /\ UNCHANGED <<diff, matchVars, runVars>>

DiffNext == ExtractStep

SpecDiff == DiffInit /\ [][DiffNext]_vars

\* ---------------------------------------------------------------------
\* The finding matcher: buildDiffLineIndex, then filterIssuesByMRDiff
\* ---------------------------------------------------------------------
PathA    == <<"a">>
PathB    == <<"b">>
PathDotA == <<".", "/", "a">>
PathSlA  == <<"/", "a", "/">>
PathSpA  == <<" ", "a", " ">>

\* lines 1 and 2 added
DiffNewFile == <<HunkHeader(0, 1), TextLine(<<"+", "x">>), TextLine(<<"+", "x">>)>>
\* line 3 context (old line 2), line 4 added
DiffEdit ==
    <<HunkHeader(2, 3), TextLine(<<" ", "x">>), TextLine(<<"-", "x">>), TextLine(<<"+", "x">>)>>
\* a deleted file: nothing visible
DiffDeleted == <<HunkHeader(1, 0), TextLine(<<"-", "x">>)>>

ChangeKinds ==
    {MergeRequestChange(PathA, PathA, DiffNewFile),
     MergeRequestChange(PathB, PathDotA, DiffEdit),
     MergeRequestChange(PathA, PathB, DiffEdit),
     MergeRequestChange(PathB, PathSlA, DiffDeleted),
     MergeRequestChange(PathA, <<"/">>, DiffNewFile)}

IssueKinds ==
    {Issue("A", "MAJOR", PathA, 1),
     Issue("B", "MAJOR", PathSpA, 3),
     Issue("C", "MINOR", PathDotA, 5),
     Issue("D", "MAJOR", PathB, 4),
     Issue("E", "INFO", PathA, 0),
     Issue("F", "MAJOR", <<" ">>, 1),
     Issue("G", "MAJOR", PathSlA, -1)}

MatchInit ==
    /\ changesIn \in SeqsUpTo(ChangeKinds, MaxChanges)
    /\ issuesIn \in SeqsUpTo(IssueKinds, MaxIssues)
    /\ index = EmptyIndex
    /\ filtered = <<>>
    /\ mpc = "build"
    /\ DiffIdle
    /\ RunIdle

\* main.go:74
BuildIndex ==
    /\ mpc = "build"
    /\ index' = buildDiffLineIndex(changesIn)
    /\ mpc' = "filter"
    /\ UNCHANGED <<changesIn, issuesIn, filtered, diffVars, runVars>>

\* main.go:108
FilterIssues ==
    /\ mpc = "filter"
    /\ filtered' = filterIssuesByMRDiff(issuesIn, index)
    /\ mpc' = "done"
    /\ UNCHANGED <<changesIn, issuesIn, index, diffVars, runVars>>

MatchNext == BuildIndex \/ FilterIssues

SpecMatch == MatchInit /\ [][MatchNext]_vars

\* ---------------------------------------------------------------------
\* The severity filter alone: FilterIssuesBySeverity as runWith calls it
\* ---------------------------------------------------------------------
SeverityIssueKinds ==
    {Issue("I", "INFO", PathA, 1),
     Issue("M", "MINOR", PathA, 1),
     Issue("J", "MAJOR", PathA, 1),
     Issue("C", "CRITICAL", PathA, 1),
     Issue("B", "BLOCKER", PathA, 1),
     Issue("U", "UNKNOWN", PathA, 1),
     Issue("j", "major", PathA, 1),
     Issue("c", "critical", PathA, 1)}

\* the findings of TestFilterIssuesBySeverity
SeverityTestIssues ==
    <<Issue("I", "INFO", PathA, 1), Issue("M", "MINOR", PathA, 1),
      Issue("J", "MAJOR", PathA, 1), Issue("C", "CRITICAL", PathA, 1),
      Issue("B", "BLOCKER", PathA, 1), Issue("U", "UNKNOWN", PathA, 1)>>

SeverityInputs == SeqsUpTo(SeverityIssueKinds, MaxIssues) \cup {SeverityTestIssues}

\* the thresholds a validated configuration can hold
SeverityThresholds == {""} \cup {AllowedSeverities[i] : i \in 1..Len(AllowedSeverities)}

SeverityInit ==
    /\ issuesIn \in SeverityInputs
    /\ \E t \in SeverityThresholds :
          run = [r \in Procs |->
                    IF r = 1 THEN [IdleRun EXCEPT !.cfg.SeverityThreshold = t]
                    ELSE IdleRun]
    /\ changesIn = <<>>
    /\ index = EmptyIndex
    /\ filtered = <<>>
    /\ mpc = "severity"
    /\ discussions = <<>>
    /\ notes = <<>>
    /\ notes0 = <<>>
    /\ runsStarted = 0
    /\ DiffIdle

\* main.go:115
FilterBySeverity ==
    /\ mpc = "severity"
    /\ filtered' = FilterIssuesBySeverity(issuesIn, run[1].cfg.SeverityThreshold)
    /\ mpc' = "filtered"
    /\ UNCHANGED <<changesIn, issuesIn, index, diffVars, runVars>>

SeverityNext == FilterBySeverity

SpecSeverity == SeverityInit /\ [][SeverityNext]_vars

\* ---------------------------------------------------------------------
\* The run: runWith against the two hosts
\* ---------------------------------------------------------------------
MaxID(items) ==
    IF Len(items) = 0 THEN 0
    ELSE CHOOSE m \in {items[i].ID : i \in 1..Len(items)} :
            \A i \in 1..Len(items) : items[i].ID <= m

DiscussionNote(body) == [Body |-> body]

\* a thread and its notes, the first note and the replies to it; by is
\* the run that created the thread (0: none of the runs)
Discussion(id, resolved, resolvable, bodies, by) ==
    [ID |-> id, Resolved |-> resolved, Resolvable |-> resolvable,
     Notes |-> [i \in 1..Len(bodies) |-> DiscussionNote(bodies[i])], by |-> by]

Note(id, body) == [ID |-> id, Body |-> body]

HumanBody == <<<<"please fix">>>>
HelloBody == <<<<"hello">>>>
\* notes of people who copied the marker: after it, around it, and all of
\* it but its end
MarkerToolBody   == <<<<commentMarker \o " tool">>>>
QuotedMarkerBody == <<<<"the bot writes">>, <<"> ", commentMarker, " first">>>>
CutMarkerBody    == <<<<"<!-- sonar-gitlab-commenter">>, <<"-->">>>>
OldInlineBody == formatInlineIssueComment(Issue("old", "MAJOR", PathA, 1))
\* a finding whose message holds the heading of the summary
HeadingMessage == "the comment says **SonarQube summary** twice"
HeadingInlineBody ==
    formatInlineIssueComment(
        [Issue("old", "MAJOR", PathA, 1) EXCEPT !.Message = HeadingMessage])
OldSummaryBody ==
    formatMergeRequestSummaryComment(
        [QualityGateStatus |-> "failed", OverallCoverage |-> Float(FALSE, "50", ""),
         NewCodeCoverage |-> FloatZero],
        <<Issue("old", "MAJOR", PathA, 1)>>, <<>>)

\* what the merge request may hold before the first run: nothing; a
\* thread whose reply holds the marker beside a resolved thread of the
\* tool and a thread whose reply cuts the marker short, and an inline
\* note whose message holds the heading; stale threads of the tool, one
\* of them not resolvable and one with a reply, and two summary notes
InitialMergeRequests ==
    {[discussions |-> <<>>, notes |-> <<>>],
     [discussions |-> <<Discussion(1, FALSE, TRUE, <<HelloBody, MarkerToolBody>>, 0),
                        Discussion(2, TRUE, TRUE, <<OldInlineBody>>, 0),
                        Discussion(3, FALSE, TRUE, <<HumanBody, CutMarkerBody>>, 0)>>,
      notes |-> <<Note(1, QuotedMarkerBody), Note(2, HeadingInlineBody)>>],
     [discussions |-> <<Discussion(1, FALSE, FALSE, <<OldInlineBody>>, 0),
                        Discussion(2, FALSE, TRUE, <<OldInlineBody, HelloBody>>, 0),
                        Discussion(3, FALSE, TRUE, <<OldInlineBody>>, 0)>>,
      notes |-> <<Note(1, OldSummaryBody), Note(2, HumanBody), Note(4, OldSummaryBody)>>]}

\* what the hosts may answer
RunChangeInputs ==
    {<<MergeRequestChange(PathA, PathA, DiffNewFile)>>,
     <<MergeRequestChange(PathB, PathDotA, DiffEdit)>>}

ComponentA == <<"p", ":", "a">>
ComponentB == <<"p", ":", "b">>

RunIssueInputs ==
    {<<>>,
     <<apiIssue("A", "MAJOR", ComponentA, 1), apiIssue("B", "minor", ComponentA, 3),
       apiIssue("F", "major", ComponentA, 2), apiIssue("H", "MAJOR", ComponentB, 1)>>,
     <<apiIssue("C", "CRITICAL", ComponentA, 4), apiIssue("D", "MAJOR", <<"p", ":">>, 0),
       apiIssue("E", "BLOCKER", ComponentA, 7), apiIssue("G", "BLOCKER", ComponentA, 3)>>,
     <<[apiIssue("S", "MAJOR", ComponentA, 1) EXCEPT !.message = HeadingMessage],
       [apiIssue("T", "MAJOR", ComponentA, 2) EXCEPT !.message = HeadingMessage]>>}

Thresholds == {"", "MAJOR"}

ReadOutcomes == {"ok", "unauthorized", "failed"}
InlineOutcomes == {"ok", "invalid_position", "unauthorized", "failed"}

RunInit ==
    /\ \E mr \in InitialMergeRequests :
          /\ discussions = mr.discussions
          /\ notes = mr.notes
          /\ notes0 = mr.notes
    /\ run = [r \in Procs |-> IdleRun]
    /\ runsStarted = 0
    /\ DiffIdle
    /\ MatchIdle

Set(r, rec) == run' = [run EXCEPT ![r] = rec]

\* the deadline of ctx has passed: expiredAfter is the number of requests
\* the run had made when it passed, -1 while it has not
Expired(me) == me.expiredAfter >= 0

\* a request still gets its answer after the deadline
Outcomes_IgnoreDeadline(me, possible) == possible

\* what a request made with ctx may come to: after the deadline of ctx
\* (main.go:54) http.Client.Do returns the context's error, which the
\* clients hand back as a failure to connect
Outcomes(me, possible) == IF Expired(me) THEN {"failed"} ELSE possible

\* return fmt.Errorf(prefix, err) after the request c
Failed(me, prefix, cause, c) ==
    [me EXCEPT !.pc = "failed",
               !.err = [prefix |-> prefix, cause |-> cause],
               !.calls = Append(me.calls, c)]

\* The order of the steps of runWith after the reads (main.go:132-265):
\* resolve the previous discussions, post the inline discussions, upsert
\* the summary note, write the report.
StepAfter_InlineFirst(pc, dryRun) ==
    CASE pc = "fetchQualityReport" -> IF dryRun THEN "report" ELSE "inline"
      [] pc = "inline" -> "listDiscussions"
      [] pc = "listDiscussions" -> "resolve"
      [] pc = "resolve" -> "listNotes"
      [] pc = "listNotes" -> "upsert"
      [] pc = "upsert" -> "report"
      [] OTHER -> "done"

StepAfter_IgnoreDryRun(pc, dryRun) ==
    CASE pc = "fetchQualityReport" -> "listDiscussions"
      [] pc = "listDiscussions" -> "resolve"
      [] pc = "resolve" -> "inline"
      [] pc = "inline" -> "listNotes"
      [] pc = "listNotes" -> "upsert"
      [] pc = "upsert" -> "report"
      [] OTHER -> "done"

StepAfter(pc, dryRun) ==
    CASE pc = "fetchQualityReport" -> IF dryRun THEN "report" ELSE "listDiscussions"
      [] pc = "listDiscussions" -> "resolve"
      [] pc = "resolve" -> "inline"
      [] pc = "inline" -> "listNotes"
      [] pc = "listNotes" -> "upsert"
      [] pc = "upsert" -> "report"
      [] OTHER -> "done"

\* main.go:565-568: the locals after the resolve request c
AfterResolve_ContinueOnError(me, outcome, c, prefix) ==
    IF outcome = "ok"
    THEN [me EXCEPT !.di = @ + 1, !.resolvedDiscussionsCount = @ + 1,
                    !.calls = Append(@, c)]
    ELSE [me EXCEPT !.di = @ + 1, !.calls = Append(@, c)]

AfterResolve(me, outcome, c, prefix) ==
    IF outcome = "ok"
    THEN [me EXCEPT !.di = @ + 1, !.resolvedDiscussionsCount = @ + 1,
                    !.calls = Append(@, c)]
    ELSE Failed(me, prefix, outcome, c)

\* main.go:202-243: the locals after the inline request c for issue
AfterInlinePost_NoDemotion(me, issue, outcome, c, prefix) ==
    IF outcome = "ok"
    THEN [me EXCEPT !.ii = @ + 1, !.postedInlineCount = @ + 1, !.calls = Append(@, c)]
    ELSE Failed(me, prefix, outcome, c)

\* a failed inline request is made once more before the run gives up
AfterInlinePost_RetryOnce(me, issue, outcome, c, prefix) ==
    CASE outcome = "ok" ->
            [me EXCEPT !.ii = @ + 1, !.postedInlineCount = @ + 1, !.calls = Append(@, c)]
      [] outcome = "invalid_position" ->
            [me EXCEPT !.ii = @ + 1, !.projectLevelIssues = Append(@, issue),
                       !.calls = Append(@, c)]
      [] OTHER ->
            IF me.calls[Len(me.calls)].op = c.op /\ me.calls[Len(me.calls)].target = c.target
            THEN Failed(me, prefix, outcome, c)
            ELSE [me EXCEPT !.calls = Append(@, c)]

\* a finding GitLab refused the position of is dropped
AfterInlinePost_DropsRejected(me, issue, outcome, c, prefix) ==
    CASE outcome = "ok" ->
            [me EXCEPT !.ii = @ + 1, !.postedInlineCount = @ + 1, !.calls = Append(@, c)]
      [] outcome = "invalid_position" ->
            [me EXCEPT !.ii = @ + 1, !.calls = Append(@, c)]
      [] OTHER -> Failed(me, prefix, outcome, c)

AfterInlinePost(me, issue, outcome, c, prefix) ==
    CASE outcome = "ok" ->
            [me EXCEPT !.ii = @ + 1, !.postedInlineCount = @ + 1, !.calls = Append(@, c)]
      [] outcome = "invalid_position" ->
            [me EXCEPT !.ii = @ + 1, !.projectLevelIssues = Append(@, issue),
                       !.calls = Append(@, c)]
      [] OTHER -> Failed(me, prefix, outcome, c)

\* helpErr.Message, the documentation config.Parse returns for --help/-h
HelpMessage == [text |-> "help"]

\* where runWith goes on the help request: on to the first request
AfterParse_HelpContinues(outcome) ==
    CASE outcome = "ok" -> "getMergeRequest"
      [] outcome = "help" -> "getMergeRequest"
      [] OTHER -> "failed"

\* main.go:38-49: where runWith goes after config.Parse: on to the first
\* request, return nil after the help output, or return err
AfterParse(outcome) ==
    CASE outcome = "ok" -> "getMergeRequest"
      [] outcome = "help" -> "done"
      [] OTHER -> "failed"

\* main.go:37-49: config.Parse
ParseConfig(r) ==
    /\ run[r].pc \in {"idle", "done", "failed"}
    /\ runsStarted < MaxRuns
    /\ runsStarted' = runsStarted + 1
    /\ \E outcome \in {"ok", "help", "invalid"} :
         \E dry \in BOOLEAN, threshold \in Thresholds :
            Set(r, [IdleRun EXCEPT
                     !.n = runsStarted + 1,
                     !.pc = AfterParse(outcome),
                     !.stdout = IF outcome = "help" THEN <<HelpMessage>> ELSE <<>>,
                     !.err = IF outcome = "invalid"
                             THEN [prefix |-> "", cause |-> "config"] ELSE NoErr,
                     !.cfg = IF outcome = "ok"
                             THEN [DryRun |-> dry, SeverityThreshold |-> threshold]
                             ELSE IdleRun.cfg])
    /\ UNCHANGED <<hostVars, diffVars, matchVars>>

\* the diff_refs of the answer of GitLab: complete, or absent as for a
\* merge request without commits
DiffRefsInputs == {CompleteDiffRefs, NoDiffRefs}

\* main.go:57-64
GetMergeRequest(r) ==
    /\ run[r].pc = "getMergeRequest"
    /\ \E outcome \in Outcomes(run[r], ReadOutcomes) :
         LET c == Call("GetMergeRequest", 0, outcome, EmptyMap) IN
         IF outcome = "ok"
         THEN \E refs \in DiffRefsInputs :
                Set(r, [run[r] EXCEPT !.pc = "listChanges",
                                      !.diffRefs = refs,
                                      !.calls = Append(@, c)])
         ELSE Set(r, Failed(run[r],
                    IF outcome = "unauthorized"
                    THEN "failed to authenticate in GitLab API"
                    ELSE "failed to connect to GitLab API", outcome, c))
    /\ UNCHANGED <<hostVars, runsStarted, diffVars, matchVars>>

\* main.go:66-74
ListMergeRequestChanges(r) ==
    /\ run[r].pc = "listChanges"
    /\ \E outcome \in Outcomes(run[r], ReadOutcomes) :
         LET c == Call("ListMergeRequestChanges", 0, outcome, EmptyMap) IN
         IF outcome = "ok"
         THEN \E changes \in RunChangeInputs :
                Set(r, [run[r] EXCEPT !.pc = "validateAuthentication",
                                      !.changes = changes,
                                      !.diffLineIndex = buildDiffLineIndex(changes),
                                      !.calls = Append(@, c)])
         ELSE Set(r, Failed(run[r],
                    IF outcome = "unauthorized"
                    THEN "failed to authenticate in GitLab API"
                    ELSE "failed to retrieve merge request diff from GitLab API",
                    outcome, c))
    /\ UNCHANGED <<hostVars, runsStarted, diffVars, matchVars>>

\* ---------------------------------------------------------------------
\* The requests of the clients, one at a time: a page of a listing of
\* GitLab, a page of the issues of SonarQube, the measures of SonarQube.
\* ---------------------------------------------------------------------
\* GitLab cuts a list into pages of per_page items and names the following
\* page in X-Next-Page, which is empty on the last page; page 0 stands for
\* the empty header.
PageOf(items, p) ==
    SubSeq(items, (p - 1) * PageSize + 1,
           IF p * PageSize < Len(items) THEN p * PageSize ELSE Len(items))

NextPageOf(items, p) == IF p * PageSize < Len(items) THEN p + 1 ELSE 0

\* a failed page hands back what the pages before it held
ListPage_PartialOnFailure(me, op, hostItems, outcome) ==
    LET c == Call(op, me.page, outcome, EmptyMap) IN
    IF outcome # "ok"
    THEN [me EXCEPT !.pc = "failed", !.err = [prefix |-> "", cause |-> outcome],
                    !.listed = me.items, !.calls = Append(@, c)]
    ELSE LET acc == me.items \o PageOf(hostItems, me.page)
             nextPage == NextPageOf(hostItems, me.page)
         IN  IF nextPage = 0
             THEN [me EXCEPT !.pc = "returned", !.items = acc, !.listed = acc,
                             !.calls = Append(@, c)]
             ELSE [me EXCEPT !.page = nextPage, !.items = acc, !.calls = Append(@, c)]

\* One iteration of the loop of a listing (part_001:304-357, 387-431):
\* the request of the page, return nil and the error when it fails, else
\* append the items and stop when X-Next-Page is empty
ListPage(me, op, hostItems, outcome) ==
    LET c == Call(op, me.page, outcome, EmptyMap) IN
    IF outcome # "ok"
    THEN [me EXCEPT !.pc = "failed", !.err = [prefix |-> "", cause |-> outcome],
                    !.calls = Append(@, c)]
    ELSE LET acc == me.items \o PageOf(hostItems, me.page)
             nextPage == NextPageOf(hostItems, me.page)
         IN  IF nextPage = 0
             THEN [me EXCEPT !.pc = "returned", !.items = acc, !.listed = acc,
                             !.calls = Append(@, c)]
             ELSE [me EXCEPT !.page = nextPage, !.items = acc, !.calls = Append(@, c)]

\* the issues the host sends for page p: the p-th slice of the size it
\* reports, or of the requested ps when it reports none
IssuesOfPage(all, paging, p) ==
    LET size == IF paging.pageSize > 0 THEN paging.pageSize ELSE PageSize
        first == (p - 1) * size + 1
        last == IF p * size < Len(all) THEN p * size ELSE Len(all)
    IN  IF first > Len(all) THEN <<>> ELSE SubSeq(all, first, last)

\* the loop goes on by the page size that was asked for
FetchPage_RequestedPageSize(me, outcome) ==
    LET c == Call("FetchProjectIssues", me.page, outcome, EmptyMap) IN
    IF outcome # "ok"
    THEN [me EXCEPT !.pc = "failed", !.err = [prefix |-> "", cause |-> outcome],
                    !.calls = Append(@, c)]
    ELSE LET acc == IssuesFrom(me.items, IssuesOfPage(me.fetched, me.paging, me.page), 1) IN
         IF me.page * PageSize >= me.paging.total
         THEN [me EXCEPT !.pc = "returned", !.items = acc, !.listed = acc,
                         !.calls = Append(@, c)]
         ELSE [me EXCEPT !.page = me.page + 1, !.items = acc, !.calls = Append(@, c)]

\* One iteration of the loop of FetchProjectIssues: getJSON, the issues of
\* the page with a path and a positive line are appended, and the loop
\* ends when the paging block of the answer has pageSize <= 0 or
\* page * pageSize >= total
FetchPage(me, outcome) ==
    LET c == Call("FetchProjectIssues", me.page, outcome, EmptyMap) IN
    IF outcome # "ok"
    THEN [me EXCEPT !.pc = "failed", !.err = [prefix |-> "", cause |-> outcome],
                    !.calls = Append(@, c)]
    ELSE LET acc == IssuesFrom(me.items, IssuesOfPage(me.fetched, me.paging, me.page), 1) IN
         IF me.paging.pageSize <= 0 \/ me.page * me.paging.pageSize >= me.paging.total
         THEN [me EXCEPT !.pc = "returned", !.items = acc, !.listed = acc,
                         !.calls = Append(@, c)]
         ELSE [me EXCEPT !.page = me.page + 1, !.items = acc, !.calls = Append(@, c)]

apiMeasure(metric, value) == [Metric |-> metric, Value |-> value]


ParseCoveragePrefix == "failed to parse SonarQube metric coverage value"
ParseNewCoveragePrefix == "failed to parse SonarQube metric new_coverage value"
MissingMetricsPrefix == "missing SonarQube coverage metrics"

CoverageInit ==
    [overallCoverage |-> FloatZero, newCoverage |-> FloatZero, overallFound |-> FALSE, newFound |-> FALSE,
     err |-> ""]

\* the loop at client.go:216-236 from the measure i on
RECURSIVE CoverageFrom(_, _, _)
CoverageFrom(st, measures, i) ==
    IF i > Len(measures) THEN st
    ELSE LET Measure(measure, f) ==
                 IF measure.Metric \notin {"coverage", "new_coverage"} THEN st
                 ELSE IF ~f.ok
                 THEN [CoverageInit EXCEPT !.err = IF measure.Metric = "coverage"
                                                   THEN ParseCoveragePrefix
                                                   ELSE ParseNewCoveragePrefix]
                 ELSE IF measure.Metric = "coverage"
                 THEN [st EXCEPT !.overallCoverage = f.parsed, !.overallFound = TRUE]
                 ELSE [st EXCEPT !.newCoverage = f.parsed, !.newFound = TRUE]
             Rest(after) == IF after.err # "" THEN after ELSE CoverageFrom(after, measures, i + 1)
         IN  Rest(Measure(measures[i], ParseFloat(measures[i].Value)))

\* fetchCoverageMetrics after getJSON has answered with the measures
fetchCoverageMetrics(measures) ==
    LET Looped(st) ==
            IF st.err # "" THEN st
            ELSE IF ~st.overallFound \/ ~st.newFound
            THEN [CoverageInit EXCEPT !.err = MissingMetricsPrefix]
            ELSE st
    IN  Looped(CoverageFrom(CoverageInit, measures, 1))

\* the run comes to a call that asks for its pages one after the other,
\* beginning with page 1
Listing(me, pc) == [me EXCEPT !.pc = pc, !.page = 1, !.items = <<>>, !.listed = <<>>]

\* main.go:85-91
ValidateAuthentication(r) ==
    /\ run[r].pc = "validateAuthentication"
    /\ \E outcome \in Outcomes(run[r], ReadOutcomes) :
         LET c == Call("ValidateAuthentication", 0, outcome, EmptyMap) IN
         IF outcome = "ok"
         THEN Set(r, [Listing(run[r], "fetchIssues") EXCEPT !.calls = Append(@, c)])
         ELSE Set(r, Failed(run[r],
                    IF outcome = "unauthorized"
                    THEN "failed to authenticate in SonarQube API"
                    ELSE "failed to connect to SonarQube API", outcome, c))
    /\ UNCHANGED <<hostVars, runsStarted, diffVars, matchVars>>

\* main.go:93-116: one request of FetchProjectIssues and, after the last
\* page, filterIssuesByMRDiff, FilterIssuesBySeverity and
\* splitIssuesByLineBinding.  SonarQube has the same findings for every
\* page of one call and reports the size of its pages and their number.
FetchIssues(r) ==
    /\ run[r].pc = "fetchIssues"
    /\ \E outcome \in Outcomes(run[r], ReadOutcomes) :
         \E payload \in (IF run[r].page = 1 THEN RunIssueInputs ELSE {run[r].fetched}) :
            LET me == [run[r] EXCEPT !.fetched = payload,
                                     !.paging = [pageSize |-> PageSize,
                                                 total |-> Len(payload)]]
                st == FetchPage(me, outcome)
                issues == FilterIssuesBySeverity(
                            filterIssuesByMRDiff(st.listed, me.diffLineIndex),
                            me.cfg.SeverityThreshold)
                split == splitIssuesByLineBinding(issues)
            IN  IF st.pc = "failed"
                THEN Set(r, Failed(run[r],
                           IF outcome = "unauthorized"
                           THEN "failed to authenticate in SonarQube API"
                           ELSE "failed to retrieve SonarQube issues",
                           outcome, st.calls[Len(st.calls)]))
                ELSE IF st.pc = "returned"
                THEN Set(r, [st EXCEPT !.pc = "fetchQualityReport",
                                       !.issues = issues,
                                       !.inlineIssues = split.inlineIssues,
                                       !.projectLevelIssues = split.projectLevelIssues])
                ELSE Set(r, st)
    /\ UNCHANGED <<hostVars, runsStarted, diffVars, matchVars>>

mapQualityGateStatus(status) ==
    LET normalized == ToUpper(TrimSpaceString(status)) IN
    CASE normalized = "OK" -> "passed"
      [] normalized = "ERROR" -> "failed"
      [] normalized = "WARN" -> "warning"
      [] OTHER -> "warning"

\* what /api/qualitygates/project_status may answer: the three statuses the
\* client knows and one it does not
GateStatusInputs == {"OK", "ERROR", "WARN", "IN_PROGRESS"}

QualityReportPrefix(outcome) ==
    IF outcome = "unauthorized"
    THEN "failed to authenticate in SonarQube API"
    ELSE "failed to retrieve SonarQube quality gate and coverage"

\* main.go:118 and client.go:170: FetchQualityReport asks for the status of
\* the quality gate
FetchQualityReport(r) ==
    /\ run[r].pc = "fetchQualityReport"
    /\ \E outcome \in Outcomes(run[r], ReadOutcomes) :
         LET c == Call("fetchQualityGateStatus", 0, outcome, EmptyMap) IN
         IF outcome = "ok"
         THEN \E status \in GateStatusInputs :
                Set(r, [run[r] EXCEPT
                          !.pc = "fetchCoverageMetrics",
                          !.qualityReport.QualityGateStatus = mapQualityGateStatus(status),
                          !.calls = Append(@, c)])
         ELSE Set(r, Failed(run[r], QualityReportPrefix(outcome), outcome, c))
    /\ UNCHANGED <<hostVars, runsStarted, diffVars, matchVars>>

DryRunLine ==
    [text |-> "Dry-run enabled: skipping GitLab discussion resolution and comment publishing"]

\* what /api/measures/component may answer
RunMeasureInputs ==
    {<<apiMeasure("coverage", "81.25"), apiMeasure("new_coverage", "70.0")>>,
     <<apiMeasure("coverage", "82.7"), apiMeasure("new_coverage", "")>>}

\* client.go:175-185 and main.go:118-136: FetchQualityReport asks for the
\* coverage; with the report the run goes on, after the line of a dry run
FetchCoverageOfReport(r) ==
    /\ run[r].pc = "fetchCoverageMetrics"
    /\ \E outcome \in Outcomes(run[r], ReadOutcomes) :
         LET c == Call("fetchCoverageMetrics", 0, outcome, EmptyMap) IN
         IF outcome = "ok"
         THEN \E measures \in RunMeasureInputs :
                LET st == fetchCoverageMetrics(measures) IN
                IF st.err # ""
                THEN Set(r, [Failed(run[r], QualityReportPrefix(outcome), "parse", c)
                               EXCEPT !.qualityReport = IdleRun.qualityReport])
                ELSE Set(r, [Listing(run[r], StepAfter("fetchQualityReport", run[r].cfg.DryRun))
                               EXCEPT
                               !.qualityReport.OverallCoverage = st.overallCoverage,
                               !.qualityReport.NewCodeCoverage = st.newCoverage,
                               !.summaryAction = "Skipped (dry-run)",
                               !.stdout = IF run[r].cfg.DryRun
                                          THEN Append(@, DryRunLine) ELSE @,
                               !.calls = Append(@, c)])
         ELSE Set(r, [Failed(run[r], QualityReportPrefix(outcome), outcome, c)
                        EXCEPT !.qualityReport = IdleRun.qualityReport])
    /\ UNCHANGED <<hostVars, runsStarted, diffVars, matchVars>>

ResolvePrefix == "failed to resolve previous SonarQube discussions"
InlinePrefix == "failed to post inline discussion for SonarQube issue"
SummaryPrefix == "failed to post SonarQube summary note"

\* main.go:551-554 and part_001:304-357: one request of the listing of
\* the discussions; after the last page resolvePreviousSonarDiscussions
\* has them
ListMergeRequestDiscussions(r) ==
    /\ run[r].pc = "listDiscussions"
    /\ \E outcome \in Outcomes(run[r], ReadOutcomes) :
         LET st == ListPage(run[r], "ListMergeRequestDiscussions", discussions, outcome) IN
         IF st.pc = "failed"
         THEN Set(r, Failed(run[r], ResolvePrefix, outcome, st.calls[Len(st.calls)]))
         ELSE IF st.pc = "returned"
         THEN Set(r, [st EXCEPT !.pc = StepAfter("listDiscussions", FALSE),
                                !.discussions = st.listed])
         ELSE Set(r, st)
    /\ UNCHANGED <<hostVars, runsStarted, diffVars, matchVars>>

\* GitLab marks the discussion resolved
HostResolve(id) ==
    [i \in 1..Len(discussions) |->
        IF discussions[i].ID = id THEN [discussions[i] EXCEPT !.Resolved = TRUE]
        ELSE discussions[i]]

\* main.go:557-571: one iteration of the loop of
\* resolvePreviousSonarDiscussions, or its end
ResolveDiscussion(r) ==
    /\ run[r].pc = "resolve"
    /\ LET me == run[r] IN
       IF me.di > Len(me.discussions)
       THEN /\ Set(r, [me EXCEPT !.pc = StepAfter("resolve", FALSE)])
            /\ UNCHANGED discussions
       ELSE IF ~IsStaleSonarDiscussion(me.discussions[me.di])
       THEN /\ Set(r, [me EXCEPT !.di = @ + 1])
            /\ UNCHANGED discussions
       ELSE \E outcome \in Outcomes(run[r], ReadOutcomes) :
              LET c == Call("ResolveMergeRequestDiscussion", me.discussions[me.di].ID,
                            outcome, "resolved" :> "true")
              IN  /\ Set(r, AfterResolve(me, outcome, c, ResolvePrefix))
                  /\ discussions' = IF outcome = "ok"
                                    THEN HostResolve(me.discussions[me.di].ID)
                                    ELSE discussions
    /\ UNCHANGED <<notes, notes0, runsStarted, diffVars, matchVars>>

\* main.go:147-244: one iteration of the loop over inlineIssues, or its end
\* (main.go:246)
PostInlineDiscussion(r) ==
    /\ run[r].pc = "inline"
    /\ LET me == run[r]
           issue == me.inlineIssues[me.ii]
           normalizedPath == normalizeRepoPath(issue.FilePath)
           demoted == [me EXCEPT !.ii = @ + 1,
                                 !.projectLevelIssues = Append(@, issue)]
       IN
       IF me.ii > Len(me.inlineIssues)
       THEN /\ Set(r, [Listing(me, StepAfter("inline", FALSE)) EXCEPT
                                 !.publishedCommentsCount = me.postedInlineCount])
            /\ UNCHANGED <<discussions, notes>>
       ELSE IF normalizedPath \notin DOMAIN me.diffLineIndex.pathMap
       THEN Set(r, demoted) /\ UNCHANGED <<discussions, notes>>
       ELSE IF normalizedPath \notin DOMAIN me.diffLineIndex.lines
       THEN Set(r, demoted) /\ UNCHANGED <<discussions, notes>>
       ELSE IF issue.Line \notin DOMAIN me.diffLineIndex.lines[normalizedPath]
       THEN Set(r, demoted) /\ UNCHANGED <<discussions, notes>>
       ELSE
         LET pathInfoOf == me.diffLineIndex.pathMap[normalizedPath]
             info == me.diffLineIndex.lines[normalizedPath][issue.Line]
             body == formatInlineIssueComment(issue)
             form == InlineForm(body, pathInfoOf.oldPath, pathInfoOf.newPath,
                                info.oldLine, info.newLine, me.diffRefs)
         IN
         IF ~InlineArgumentsValid(body, pathInfoOf.oldPath, pathInfoOf.newPath,
                                  info.oldLine, info.newLine, me.diffRefs)
         THEN /\ Set(r, [me EXCEPT !.pc = "failed",
                                   !.err = [prefix |-> InlinePrefix, cause |-> "argument"]])
              /\ UNCHANGED <<discussions, notes>>
         ELSE \E outcome \in Outcomes(run[r], InlineOutcomes) :
                LET c == Call("CreateInlineDiscussion", issue.Key, outcome, form) IN
                /\ Set(r, AfterInlinePost(me, issue, outcome, c, InlinePrefix))
                /\ discussions' =
                      IF outcome = "ok"
                      THEN Append(discussions,
                              Discussion(MaxID(discussions) + 1, FALSE, TRUE, <<body>>, me.n))
                      ELSE discussions
                /\ notes' = IF outcome = "ok"
                            THEN Append(notes, Note(MaxID(notes) + 1, body))
                            ELSE notes
    /\ UNCHANGED <<notes0, runsStarted, diffVars, matchVars>>

\* main.go:591-594 and part_001:387-431: one request of the listing of
\* the notes; after the last page upsertSummaryNote has them
ListMergeRequestNotes(r) ==
    /\ run[r].pc = "listNotes"
    /\ \E outcome \in Outcomes(run[r], ReadOutcomes) :
         LET st == ListPage(run[r], "ListMergeRequestNotes", notes, outcome) IN
         IF st.pc = "failed"
         THEN Set(r, Failed(run[r], SummaryPrefix, outcome, st.calls[Len(st.calls)]))
         ELSE IF st.pc = "returned"
         THEN Set(r, [st EXCEPT !.pc = StepAfter("listNotes", FALSE),
                                !.notes = st.listed])
         ELSE Set(r, st)
    /\ UNCHANGED <<hostVars, runsStarted, diffVars, matchVars>>

\* GitLab replaces the body of the note
HostUpdateNote(id, body) ==
    [i \in 1..Len(notes) |->
        IF notes[i].ID = id THEN [notes[i] EXCEPT !.Body = body] ELSE notes[i]]

\* main.go:596-608 and 248-264: create the summary note or update the latest
UpsertSummaryNote(r) ==
    /\ run[r].pc = "upsert"
    /\ LET me == run[r]
           summaryBody == formatMergeRequestSummaryComment(
                             me.qualityReport, me.issues, me.projectLevelIssues)
           latest == findLatestSummaryNote(me.notes)
       IN
       \E outcome \in Outcomes(run[r], ReadOutcomes) :
         IF ~latest.found
         THEN LET c == Call("CreateMergeRequestNote", 0, outcome, "body" :> summaryBody) IN
              IF outcome = "ok"
              THEN /\ Set(r, [me EXCEPT !.pc = StepAfter("upsert", FALSE),
                                        !.summaryAction = "Posted",
                                        !.publishedCommentsCount = @ + 1,
                                        !.calls = Append(@, c)])
                   /\ notes' = Append(notes, Note(MaxID(notes) + 1, summaryBody))
              ELSE /\ Set(r, Failed(me, SummaryPrefix, outcome, c))
                   /\ UNCHANGED notes
         ELSE LET c == Call("UpdateMergeRequestNote", latest.latestOne.ID, outcome,
                            "body" :> summaryBody) IN
              IF outcome = "ok"
              THEN /\ Set(r, [me EXCEPT !.pc = StepAfter("upsert", FALSE),
                                        !.summaryAction = "Updated",
                                        !.calls = Append(@, c)])
                   /\ notes' = HostUpdateNote(latest.latestOne.ID, summaryBody)
              ELSE /\ Set(r, Failed(me, SummaryPrefix, outcome, c))
                   /\ UNCHANGED notes
    /\ UNCHANGED <<discussions, notes0, runsStarted, diffVars, matchVars>>

\* main.go:267-305: the lines runWith writes before it returns nil
ActionLog(me) ==
    <<[text |-> "Action log: found %d issues, published %d comments",
       found |-> Len(me.issues), published |-> me.publishedCommentsCount],
      [text |-> "Resolved %d previous SonarQube discussions in merge request %d",
       resolved |-> me.resolvedDiscussionsCount],
      [text |-> "Posted %d inline SonarQube discussions to merge request %d",
       posted |-> me.postedInlineCount],
      [text |-> "%s summary SonarQube note in merge request %d",
       action |-> me.summaryAction],
      [text |-> "Quality gate: %s, coverage: %.2f%%, new code coverage: %.2f%%",
       status |-> me.qualityReport.QualityGateStatus,
       coverage |-> FormatCoverage(me.qualityReport.OverallCoverage),
       newCoverage |-> FormatCoverage(me.qualityReport.NewCodeCoverage)],
      [text |-> "Resolved GitLab merge request: project_id=%d, mr_iid=%d"]>>

\* the 30 seconds of context.WithTimeout (main.go:54) pass while the run
\* is under way
DeadlineExpires(r) ==
    /\ run[r].pc \notin {"idle", "done", "failed"}
    /\ ~Expired(run[r])
    /\ Set(r, [run[r] EXCEPT !.expiredAfter = Len(run[r].calls)])
    /\ UNCHANGED <<hostVars, runsStarted, diffVars, matchVars>>

\* main.go:267-307: the action log is written and runWith returns nil
WriteReport(r) ==
    /\ run[r].pc = "report"
    /\ Set(r, [run[r] EXCEPT !.pc = StepAfter("report", run[r].cfg.DryRun),
                              !.stdout = @ \o ActionLog(run[r])])
    /\ UNCHANGED <<hostVars, runsStarted, diffVars, matchVars>>

RunStep(r) ==
    \/ ParseConfig(r)
    \/ GetMergeRequest(r)
    \/ ListMergeRequestChanges(r)
    \/ ValidateAuthentication(r)
    \/ FetchIssues(r)
    \/ FetchQualityReport(r)
    \/ FetchCoverageOfReport(r)
    \/ ListMergeRequestDiscussions(r)
    \/ ResolveDiscussion(r)
    \/ PostInlineDiscussion(r)
    \/ ListMergeRequestNotes(r)
    \/ UpsertSummaryNote(r)
    \/ WriteReport(r)

\* runs of one process, one after the other
Next == RunStep(1)

Spec == RunInit /\ [][Next]_vars

\* one run, during which the deadline of its context may pass
DeadlineNext ==
    \/ runsStarted = 0 /\ ParseConfig(1)
    \/ GetMergeRequest(1)
    \/ ListMergeRequestChanges(1)
    \/ ValidateAuthentication(1)
    \/ FetchIssues(1)
    \/ FetchQualityReport(1)
    \/ FetchCoverageOfReport(1)
    \/ ListMergeRequestDiscussions(1)
    \/ ResolveDiscussion(1)
    \/ PostInlineDiscussion(1)
    \/ ListMergeRequestNotes(1)
    \/ UpsertSummaryNote(1)
    \/ WriteReport(1)
    \/ DeadlineExpires(1)

SpecDeadline == RunInit /\ [][DeadlineNext]_vars

\* ---------------------------------------------------------------------
\* upsertSummaryNote by itself, on the notes a merge request may list
\* ---------------------------------------------------------------------
NoteBodies == {HumanBody, QuotedMarkerBody, OldInlineBody, HeadingInlineBody, OldSummaryBody}

DistinctIDs(items) ==
    \A i, j \in 1..Len(items) : i # j => items[i].ID # items[j].ID

\* the listings of up to MaxNotes notes, in any order of their identifiers
NoteInputs ==
    {ns \in SeqsUpTo([ID : 1..(MaxNotes + 1), Body : NoteBodies], MaxNotes) :
        DistinctIDs(ns)}

UpsertInit ==
    /\ notes \in NoteInputs
    /\ notes0 = notes
    /\ discussions = <<>>
    /\ run = [r \in Procs |->
                IF r = 1 THEN [Listing(IdleRun, "listNotes") EXCEPT !.n = 1] ELSE IdleRun]
    /\ runsStarted = 1
    /\ DiffIdle
    /\ MatchIdle

UpsertNext == ListMergeRequestNotes(1) \/ UpsertSummaryNote(1)

SpecUpsert == UpsertInit /\ [][UpsertNext]_vars

\* ---------------------------------------------------------------------
\* The paginated listings of the GitLab client on their own
\* ---------------------------------------------------------------------
DiscussionInputs ==
    {ds \in SeqsUpTo({Discussion(id, FALSE, TRUE, bodies, 0) :
                         id \in 1..MaxNotes,
                         bodies \in {<<HumanBody>>, <<OldInlineBody>>,
                                     <<HelloBody, MarkerToolBody>>}}, MaxNotes) :
        DistinctIDs(ds)}

PagesInit ==
    /\ \/ /\ discussions \in DiscussionInputs
          /\ notes = <<>>
          /\ run = [r \in Procs |->
                      IF r = 1 THEN [IdleRun EXCEPT !.pc = "discussionsPage", !.n = 1, !.page = 1]
                      ELSE IdleRun]
       \/ /\ discussions = <<>>
          /\ notes \in NoteInputs
          /\ run = [r \in Procs |->
                      IF r = 1 THEN [IdleRun EXCEPT !.pc = "notesPage", !.n = 1, !.page = 1]
                      ELSE IdleRun]
    /\ notes0 = notes
    /\ runsStarted = 1
    /\ DiffIdle
    /\ MatchIdle

\* part_001:304-357
ListDiscussionsPage(r) ==
    /\ run[r].pc = "discussionsPage"
    /\ \E outcome \in ReadOutcomes :
          Set(r, ListPage(run[r], "ListMergeRequestDiscussions", discussions, outcome))
    /\ UNCHANGED <<hostVars, runsStarted, diffVars, matchVars>>

\* part_001:387-431
ListNotesPage(r) ==
    /\ run[r].pc = "notesPage"
    /\ \E outcome \in ReadOutcomes :
          Set(r, ListPage(run[r], "ListMergeRequestNotes", notes, outcome))
    /\ UNCHANGED <<hostVars, runsStarted, diffVars, matchVars>>

PagesNext == ListDiscussionsPage(1) \/ ListNotesPage(1)

SpecPages == PagesInit /\ [][PagesNext]_vars

\* ---------------------------------------------------------------------
\* FetchProjectIssues page by page (client.go:115-162).  SonarQube answers
\* page p of /api/issues/search with the p-th slice of ps issues and the
\* paging block {pageSize, total}; PageSize stands for ps = 500.
\* ---------------------------------------------------------------------
ApiIssueKinds ==
    {apiIssue("A", "MAJOR", ComponentA, 1),
     apiIssue("B", "MINOR", ComponentA, 0),
     apiIssue("C", "CRITICAL", ComponentA, 4),
     apiIssue("D", "MAJOR", <<"p", ":">>, 2)}

\* the paging block the host reports with every page
PagingBlocks == [pageSize : 0..(PageSize + 1), total : 0..MaxIssues]

IssuesInit ==
    /\ \E all \in SeqsUpTo(ApiIssueKinds, MaxIssues), paging \in PagingBlocks :
          run = [r \in Procs |->
                    IF r = 1
                    THEN [IdleRun EXCEPT !.pc = "issuesPage", !.n = 1, !.page = 1,
                                         !.fetched = all, !.paging = paging]
                    ELSE IdleRun]
    /\ discussions = <<>>
    /\ notes = <<>>
    /\ notes0 = <<>>
    /\ runsStarted = 1
    /\ DiffIdle
    /\ MatchIdle

\* client.go:126-159
FetchIssuesPage(r) ==
    /\ run[r].pc = "issuesPage"
    /\ \E outcome \in ReadOutcomes : Set(r, FetchPage(run[r], outcome))
    /\ UNCHANGED <<hostVars, runsStarted, diffVars, matchVars>>

IssuesNext == FetchIssuesPage(1)

SpecIssues == IssuesInit /\ [][IssuesNext]_vars

\* ---------------------------------------------------------------------
\* fetchCoverageMetrics (client.go:199-242) on the measures the host
\* answers.  A coverage is the Float ParseFloat makes of its value.
\* ---------------------------------------------------------------------
MeasureKinds ==
    {apiMeasure(metric, value) :
        metric \in {"coverage", "new_coverage", "ncloc"},
        value \in {"82.7", "12.5", "1.005", "0x1p-2", "0", "", "n/a"}}

\* the measures of TestFetchQualityReportEmptyNewCoverage
EmptyNewCoverageMeasures ==
    <<apiMeasure("coverage", "82.7"), apiMeasure("new_coverage", "")>>

MeasureInputs == SeqsUpTo(MeasureKinds, MaxMeasures) \cup {EmptyNewCoverageMeasures}

MeasuresInit ==
    /\ \E measures \in MeasureInputs :
          run = [r \in Procs |->
                    IF r = 1
                    THEN [IdleRun EXCEPT !.pc = "coverageMetrics", !.n = 1,
                                         !.items = measures]
                    ELSE IdleRun]
    /\ discussions = <<>>
    /\ notes = <<>>
    /\ notes0 = <<>>
    /\ runsStarted = 1
    /\ DiffIdle
    /\ MatchIdle

\* client.go:199-241
FetchCoverageMetrics(r) ==
    /\ run[r].pc = "coverageMetrics"
    /\ \E outcome \in ReadOutcomes :
          LET c == Call("fetchCoverageMetrics", 0, outcome, EmptyMap)
              st == fetchCoverageMetrics(run[r].items)
          IN  IF outcome # "ok"
              THEN Set(r, Failed(run[r], "", outcome, c))
              ELSE IF st.err # ""
              THEN Set(r, Failed(run[r], st.err, "metrics", c))
              ELSE Set(r, [run[r] EXCEPT
                              !.pc = "returned",
                              !.qualityReport.OverallCoverage = st.overallCoverage,
                              !.qualityReport.NewCodeCoverage = st.newCoverage,
                              !.calls = Append(@, c)])
    /\ UNCHANGED <<hostVars, runsStarted, diffVars, matchVars>>

MeasuresNext == FetchCoverageMetrics(1)

SpecMeasures == MeasuresInit /\ [][MeasuresNext]_vars

\* ---------------------------------------------------------------------
\* CreateInlineDiscussion against one answer of the host (part_001:166-227,
\* sendForm 462-494).  An error text is the sequence of its pieces; status
\* 0 stands for a request that got no answer.
\* ---------------------------------------------------------------------
HasPiece(text, piece) == \E i \in 1..Len(text) : text[i] = piece

\* one of the two phrases is enough
isInvalidInlinePositionError_EitherPhrase(text) ==
    HasPiece(text, "line_code") \/ HasPiece(text, "valid line code")

\* part_001:541-549 on err.Error()
isInvalidInlinePositionError(text) ==
    HasPiece(text, "line_code") /\ HasPiece(text, "valid line code")

\* io.LimitReader(resp.Body, maxResponseBodyForError)
LimitReader(body) ==
    SubSeq(body, 1, IF Len(body) < MaxErrorBody THEN Len(body) ELSE MaxErrorBody)

\* sendForm: the error it returns for an answer of the host
sendForm(resp) ==
    IF resp.status = 0
    THEN [kind |-> "failed", text |-> <<"failed to connect to GitLab at">>]
    ELSE IF resp.status \in {401, 403}
    THEN [kind |-> "unauthorized",
          text |-> <<"unauthorized GitLab API request", ": HTTP ", ToString(resp.status)>>]
    ELSE IF resp.status < 200 \/ resp.status >= 300
    THEN [kind |-> "failed",
          text |-> <<"GitLab API request failed for", ": HTTP ", ToString(resp.status), ": ">>
                   \o LimitReader(resp.body)]
    ELSE [kind |-> "nil", text |-> <<>>]

\* CreateInlineDiscussion: what it returns and whether a request was sent
CreateInlineDiscussion(args, resp) ==
    IF ~InlineArgumentsValid(args.body, args.oldPath, args.newPath,
                             args.oldLine, args.newLine, args.diffRefs)
    THEN [outcome |-> "argument", sent |-> FALSE]
    ELSE LET err == sendForm(resp) IN
         IF err.kind = "nil" THEN [outcome |-> "ok", sent |-> TRUE]
         ELSE IF isInvalidInlinePositionError(err.text)
         THEN [outcome |-> "invalid_position", sent |-> TRUE]
         ELSE [outcome |-> err.kind, sent |-> TRUE]

InlineArguments ==
    {[body |-> body, oldPath |-> PathB, newPath |-> newPath,
      oldLine |-> 0, newLine |-> newLine, diffRefs |-> refs] :
        body \in {<<>>, <<<<" ">>, <<"\t">>>>, OldInlineBody}, newPath \in {PathDotA},
        newLine \in {0, 4},
        refs \in {NoDiffRefs, CompleteDiffRefs, DiffRefs("base", " ", "head")}}

HostAnswers ==
    {[status |-> status, body |-> body] :
        status \in {0, 201, 400, 401, 403, 500},
        body \in SeqsUpTo({"line_code", "valid line code", "Bad request"}, MaxErrorBody + 1)}

InlineInit ==
    /\ \E args \in InlineArguments, resp \in HostAnswers :
          run = [r \in Procs |->
                    IF r = 1
                    THEN [IdleRun EXCEPT !.pc = "createInline", !.n = 1,
                                         !.items = <<args, resp>>]
                    ELSE IdleRun]
    /\ discussions = <<>>
    /\ notes = <<>>
    /\ notes0 = <<>>
    /\ runsStarted = 1
    /\ DiffIdle
    /\ MatchIdle

\* part_001:166-227
CreateInline(r) ==
    /\ run[r].pc = "createInline"
    /\ Set(r, [run[r] EXCEPT
                  !.pc = "returned",
                  !.listed = <<CreateInlineDiscussion(run[r].items[1], run[r].items[2])>>])
    /\ UNCHANGED <<hostVars, runsStarted, diffVars, matchVars>>

InlineNext == CreateInline(1)

SpecInline == InlineInit /\ [][InlineNext]_vars

\* ---------------------------------------------------------------------
\* Properties of the diff line mapper
\* ---------------------------------------------------------------------
ParsesOk(line) == IsHeaderLine(line) /\ line.matches /\ line.newStart > 0

\* the index TestExtractDiffLines expects
ScenarioIndex ==
    (10 :> lineInfo(lineTypeAdded, 0, 10)) @@ (11 :> lineInfo(lineTypeAdded, 0, 11)) @@
    (12 :> lineInfo(lineTypeAdded, 0, 12)) @@ (40 :> lineInfo(lineTypeAdded, 0, 40)) @@
    (41 :> lineInfo(lineTypeContext, 21, 41))

\* C7: every hunk header that parses sets both cursors to its own start
\* values, so what a diff indexes from a header on is what the lines from
\* that header on index by themselves, laid over what came before; the
\* diff of the test indexes 10, 11, 12 and 40 as Added and 41 as Context
\* with old line 21.
C7_HunkResync ==
    /\ (pos >= 1 /\ ParsesOk(diff[pos])) =>
            /\ inHunk
            /\ currentOldLine = diff[pos].oldStart
            /\ currentNewLine = diff[pos].newStart
    /\ (pos = Len(diff)) =>
            \A h \in Headers(diff) :
                ParsesOk(diff[h]) =>
                    result = Overlay(extractDiffLines(SubSeq(diff, 1, h - 1)),
                                     extractDiffLines(SubSeq(diff, h, Len(diff))))
    /\ (diff = ScenarioDiff /\ pos = Len(diff)) => result = ScenarioIndex

C7_Witness ==
    /\ diff = ScenarioDiff
    /\ pos = Len(diff)
    /\ 41 \in DOMAIN result
    /\ result[41].oldLine = 21

\* the next line of a well-formed diff is consumed while the parser is in
\* a hunk (a header with new start 0, of a deleted file, opens none)
StepInHunk ==
    /\ WellFormedDiff(diff)
    /\ pos < Len(diff)
    /\ pos' = pos + 1
    /\ inHunk

\* C8: in well-formed diff text every added line of a hunk records one
\* Added entry at the new-line cursor, with old line 0, and moves the
\* new-line cursor by one and the old-line cursor not at all.
C8_AddedLineIndexed ==
    [][(StepInHunk /\ IsAddedLine(diff[pos + 1])) =>
            /\ result' = MapSet(result, currentNewLine,
                                lineInfo(lineTypeAdded, 0, currentNewLine))
            /\ currentNewLine' = currentNewLine + 1
            /\ currentOldLine' = currentOldLine]_vars

\* C9: in well-formed diff text a context line records a Context entry
\* with the two cursor values and moves both cursors by one, a removed
\* line records nothing and moves only the old-line cursor, and no line
\* but a hunk header moves a cursor back.
C9_ContextAndRemovedLines ==
    [][StepInHunk =>
            /\ IsContextLine(diff[pos + 1]) =>
                    /\ result' = MapSet(result, currentNewLine,
                            lineInfo(lineTypeContext, currentOldLine, currentNewLine))
                    /\ currentOldLine' = currentOldLine + 1
                    /\ currentNewLine' = currentNewLine + 1
            /\ IsRemovedLine(diff[pos + 1]) =>
                    /\ result' = result
                    /\ currentOldLine' = currentOldLine + 1
                    /\ currentNewLine' = currentNewLine
            /\ ~IsHeaderLine(diff[pos + 1]) =>
                    /\ currentOldLine' >= currentOldLine
                    /\ currentNewLine' >= currentNewLine]_vars

\* ---------------------------------------------------------------------
\* Properties of the finding matcher
\* ---------------------------------------------------------------------
\* the finding is visible: its normalized path is a key of the index and
\* its line has an entry under that path
Visible(issue, idx) ==
    /\ normalizeRepoPath(issue.FilePath) \in DOMAIN idx.lines
    /\ issue.Line \in DOMAIN idx.lines[normalizeRepoPath(issue.FilePath)]

\* s is the subsequence of t at the positions in K, in the order of t
IsSubsequenceAt(s, t, K) ==
    /\ Len(s) = Cardinality(K)
    /\ \A j \in K : s[Cardinality({k \in K : k <= j})] = t[j]

\* C6: filterIssuesByMRDiff keeps exactly the findings that are visible in
\* the index, in their input order, and never one with a blank path or a
\* non-positive line.
C6_FilterKeepsVisible ==
    (mpc = "done") =>
        /\ IsSubsequenceAt(filtered, issuesIn,
                           {j \in 1..Len(issuesIn) : Visible(issuesIn[j], index)})
        /\ \A i \in 1..Len(filtered) :
              /\ TrimSpace(filtered[i].FilePath) # <<>>
              /\ filtered[i].Line > 0

\* two findings are kept around one that is dropped
C6_Witness ==
    /\ mpc = "done"
    /\ Len(issuesIn) = 3
    /\ Len(filtered) = 2
    /\ filtered[1] # filtered[2]
    /\ ~Visible(issuesIn[2], index)

\* ---------------------------------------------------------------------
\* Properties of the run
\* ---------------------------------------------------------------------
Me == run[1]

IsCall(c, op) == c.op = op

IsResolveCall(c) == IsCall(c, "ResolveMergeRequestDiscussion")
IsInlineCall(c) == IsCall(c, "CreateInlineDiscussion")
IsSummaryWrite(c) ==
    IsCall(c, "CreateMergeRequestNote") \/ IsCall(c, "UpdateMergeRequestNote")

HasMarker(d) ==
    \E i \in 1..Len(d.Notes) : Contains(d.Notes[i].Body, commentMarker)

\* the thread is open, resolvable and carries the marker
Eligible(d) == ~d.Resolved /\ d.Resolvable /\ HasMarker(d)

\* C1: every resolve call of a run goes to a thread that the listing
\* fetched at the start of the step shows open, resolvable and carrying
\* the marker; and no step changes the resolved flag of a thread on the
\* host that lacks the marker, is already resolved or is not resolvable.
C1_ResolveOnlyStaleToolThreads ==
    /\ [](\A i \in 1..Len(Me.calls) :
            IsResolveCall(Me.calls[i]) =>
                \E j \in 1..Len(Me.discussions) :
                    /\ Me.discussions[j].ID = Me.calls[i].target
                    /\ Eligible(Me.discussions[j]))
    /\ [][\A j \in 1..Len(discussions) :
            ~Eligible(discussions[j]) => discussions'[j] = discussions[j]]_vars

\* a run resolved the open thread whose second note holds the marker
\* within a longer text, beside a thread that was already resolved and a
\* thread of two notes that cut the marker short, which are as they were
C1_Witness ==
    /\ Me.pc = "inline"
    /\ Me.resolvedDiscussionsCount = 1
    /\ Len(Me.discussions) = 3
    /\ Len(Me.discussions[1].Notes) = 2
    /\ ~commentHasMarker(Me.discussions[1].Notes[1].Body)
    /\ Me.discussions[1].Notes[2].Body = MarkerToolBody
    /\ Len(Me.discussions[3].Notes) = 2
    /\ ~HasMarker(Me.discussions[3])
    /\ Me.discussions[2].Resolved
    /\ discussions[1].Resolved
    /\ discussions[2] = Me.discussions[2]
    /\ discussions[3] = Me.discussions[3]
    /\ ~discussions[3].Resolved

SummaryNotes(ns) == {i \in 1..Len(ns) : isSummaryNote(ns[i].Body)}

\* C2: no create-note call is made when the note listing the run fetched
\* holds a note with the marker and the summary heading; and when the
\* merge request starts without such a note it never holds more than one.
C2_NoSecondSummaryNote ==
    /\ \A i \in 1..Len(Me.calls) :
          IsCall(Me.calls[i], "CreateMergeRequestNote") => SummaryNotes(Me.notes) = {}
    /\ (SummaryNotes(notes0) = {}) => Cardinality(SummaryNotes(notes)) <= 1

\* the step of runWith a request belongs to
StepOf(c) ==
    CASE IsCall(c, "ListMergeRequestDiscussions") \/ IsResolveCall(c) -> 1
      [] IsInlineCall(c) -> 2
      [] IsCall(c, "ListMergeRequestNotes") \/ IsSummaryWrite(c) -> 3
      [] OTHER -> 0

\* C3: the requests of a run never go back a step, so the discussion
\* listing and the resolve calls come before every inline creation, and
\* every inline creation comes before the note listing and the summary
\* create or update; no thread the run created is a target of one of its
\* resolve calls.
C3_ResolveThenInlineThenSummary ==
    /\ \A i \in 1..(Len(Me.calls) - 1) :
          StepOf(Me.calls[i]) <= StepOf(Me.calls[i + 1])
    /\ \A i \in 1..Len(Me.calls) :
          IsResolveCall(Me.calls[i]) =>
              \A j \in 1..Len(discussions) :
                  discussions[j].ID = Me.calls[i].target => discussions[j].by # Me.n

\* a run resolved a thread, created a thread and wrote the summary
C3_Witness ==
    /\ Me.pc = "done"
    /\ Me.resolvedDiscussionsCount >= 1
    /\ Me.postedInlineCount >= 1
    /\ \E j \in 1..Len(discussions) : discussions[j].by = Me.n /\ ~discussions[j].Resolved
    /\ \E i \in 1..Len(Me.calls) : IsSummaryWrite(Me.calls[i])

IsRejected(c) == IsInlineCall(c) /\ c.outcome = "invalid_position"

\* the position of the finding with the key in the inline list of the run
InlinePosition(key) ==
    CHOOSE k \in 1..Len(Me.inlineIssues) : Me.inlineIssues[k].Key = key

\* the summary body lists the finding among those without line binding
ListsProjectLevel(body, issue) ==
    \E l \in 1..Len(body) :
        /\ Len(body[l]) = 12
        /\ body[l][2] = ". ["
        /\ body[l][3] = TrimSpaceString(issue.Severity)
        /\ body[l][7] = TrimSpaceString(issue.Message)
        /\ body[l][10] = TrimSpaceString(issue.Rule)

\* C4: an inline request the host rejects for its coordinates puts the
\* finding on the project-level list, which the summary body of the run
\* renders; the posted counter counts the accepted requests only; the
\* next request of the run is the inline request of the next finding or,
\* after the last finding, the note listing of the summary upsert; and a
\* run never fails because of the rejection.
C4_RejectedPositionFallsBackToSummary ==
    /\ \A i \in 1..Len(Me.calls) :
          IsRejected(Me.calls[i]) =>
              LET k == InlinePosition(Me.calls[i].target)
                  issue == Me.inlineIssues[k]
              IN  /\ \E j \in 1..Len(Me.projectLevelIssues) :
                        Me.projectLevelIssues[j] = issue
                  /\ IF i = Len(Me.calls)
                     THEN Me.pc \in {"inline", "listNotes"} /\ Me.ii = k + 1
                     ELSE IF k < Len(Me.inlineIssues)
                     THEN /\ IsInlineCall(Me.calls[i + 1])
                          /\ Me.calls[i + 1].target = Me.inlineIssues[k + 1].Key
                     ELSE IsCall(Me.calls[i + 1], "ListMergeRequestNotes")
                  /\ \A j \in 1..Len(Me.calls) :
                        IsSummaryWrite(Me.calls[j]) =>
                            ListsProjectLevel(Me.calls[j].form["body"], issue)
    /\ Me.postedInlineCount =
          Cardinality({i \in 1..Len(Me.calls) :
                          IsInlineCall(Me.calls[i]) /\ Me.calls[i].outcome = "ok"})
    /\ (Me.pc = "failed") => Me.err.cause # "invalid_position"

\* the first finding was rejected, the second was posted, the summary
\* note was created and the run returned nil
C4_Witness ==
    /\ Me.pc = "done"
    /\ Me.summaryAction = "Posted"
    /\ Me.postedInlineCount = 1
    /\ Len(Me.projectLevelIssues) = 1
    /\ \E i \in 1..(Len(Me.calls) - 1) :
          /\ IsRejected(Me.calls[i])
          /\ IsInlineCall(Me.calls[i + 1])
          /\ Me.calls[i + 1].outcome = "ok"

IsAbortingFailure(c) ==
    /\ IsResolveCall(c) \/ IsInlineCall(c)
    /\ c.outcome \in {"unauthorized", "failed"}

\* C5: a resolve request that fails, and an inline request that fails
\* otherwise than by a coordinate rejection, is the last request of its
\* run, and the run has returned the error of that step.
C5_FirstFailureAborts ==
    \A i \in 1..Len(Me.calls) :
        IsAbortingFailure(Me.calls[i]) =>
            /\ i = Len(Me.calls)
            /\ Me.pc = "failed"
            /\ Me.err.cause = Me.calls[i].outcome
            /\ Me.err.prefix = IF IsResolveCall(Me.calls[i])
                               THEN ResolvePrefix ELSE InlinePrefix

\* the second resolve request of a run failed and a stale thread is
\* still open
C5_Witness ==
    /\ Me.pc = "failed"
    /\ Me.resolvedDiscussionsCount = 1
    /\ IsResolveCall(Me.calls[Len(Me.calls)])
    /\ Me.calls[Len(Me.calls)].outcome = "failed"
    /\ \E j \in 1..Len(discussions) : Eligible(discussions[j])

\* the index entry of the finding an inline request is for
EntryOf(c) ==
    LET issue == Me.inlineIssues[InlinePosition(c.target)]
    IN  Me.diffLineIndex.lines[normalizeRepoPath(issue.FilePath)][issue.Line]

Sent(c, field) == field \in DOMAIN c.form

\* C10: an inline request carries the line numbers of the index entry at
\* the line of its finding: new_line alone for an Added entry, whose old
\* line is 0, old_line and new_line for a Context entry, and a line
\* number exactly when it is greater than zero.
C10_CoordinatePairFromIndexEntry ==
    \A i \in 1..Len(Me.calls) :
        IsInlineCall(Me.calls[i]) =>
            LET c == Me.calls[i]
                entry == EntryOf(c)
            IN  /\ entry.lineType = lineTypeAdded =>
                      /\ entry.oldLine = 0
                      /\ ~Sent(c, "position[old_line]")
                      /\ Sent(c, "position[new_line]")
                      /\ c.form["position[new_line]"] = entry.newLine
                /\ entry.lineType = lineTypeContext =>
                      /\ Sent(c, "position[old_line]")
                      /\ c.form["position[old_line]"] = entry.oldLine
                      /\ Sent(c, "position[new_line]")
                      /\ c.form["position[new_line]"] = entry.newLine
                /\ Sent(c, "position[old_line]") <=> entry.oldLine > 0
                /\ Sent(c, "position[new_line]") <=> entry.newLine > 0

\* a run sent a finding on an added line and a finding on a context line
C10_Witness ==
    /\ \E i \in 1..Len(Me.calls) :
          /\ IsInlineCall(Me.calls[i])
          /\ EntryOf(Me.calls[i]).lineType = lineTypeAdded
          /\ Me.calls[i].form["position[new_line]"] = 4
    /\ \E i \in 1..Len(Me.calls) :
          /\ IsInlineCall(Me.calls[i])
          /\ EntryOf(Me.calls[i]).lineType = lineTypeContext
          /\ Me.calls[i].form["position[old_line]"] = 2
          /\ Me.calls[i].form["position[new_line]"] = 3

\* ---------------------------------------------------------------------
\* Properties of the summary upsert
\* ---------------------------------------------------------------------
\* the places of a listing whose note has the marker and the heading
Tagged(ns) ==
    {i \in 1..Len(ns) :
        Contains(ns[i].Body, commentMarker) /\ Contains(ns[i].Body, summaryHeading)}

\* C11: findLatestSummaryNote finds a note exactly when some note of the
\* listing has both the marker and the summary heading, and the note it
\* returns is the one of them with the greatest identifier; a note with
\* the marker alone is not returned.
C11_LatestSummaryNote ==
    LET r == findLatestSummaryNote(notes) IN
    /\ r.found <=> Tagged(notes) # {}
    /\ r.found =>
          \E i \in Tagged(notes) :
              /\ r.latestOne = notes[i]
              /\ \A j \in Tagged(notes) : notes[j].ID <= notes[i].ID

\* the upsert updated the first note of a listing of three: an inline
\* note whose message holds the heading, a summary with a smaller
\* identifier, and a note with the greatest identifier of the three that
\* holds the marker within a longer text and no heading
C11_Witness ==
    /\ Me.pc = "report"
    /\ Me.summaryAction = "Updated"
    /\ Len(Me.notes) = 3
    /\ Tagged(Me.notes) = {1, 2}
    /\ Me.notes[1].Body = HeadingInlineBody
    /\ Me.notes[2].Body = OldSummaryBody
    /\ Me.notes[1].ID > Me.notes[2].ID
    /\ Me.notes[3].Body = QuotedMarkerBody
    /\ Contains(Me.notes[3].Body, commentMarker)
    /\ Me.notes[3].ID > Me.notes[1].ID
    /\ Me.calls[Len(Me.calls)].target = Me.notes[1].ID

CallsOf(op) == {i \in 1..Len(Me.calls) : IsCall(Me.calls[i], op)}

\* the greatest identifier among the tagged notes of a listing
GreatestTagged(ns) ==
    CHOOSE id \in {ns[i].ID : i \in Tagged(ns)} :
        \A j \in Tagged(ns) : ns[j].ID <= id

\* C12: when the fetched listing holds several notes with marker and
\* heading, the upsert makes no create request and at most one update
\* request, addressed to the greatest identifier among them, and exactly
\* one when it succeeds; the host then lists the same notes with the same
\* identifiers, and every note but the addressed one has the body it had.
C12_UpdateLatestLeaveOthers ==
    (Cardinality(Tagged(Me.notes)) >= 2) =>
        /\ CallsOf("CreateMergeRequestNote") = {}
        /\ Cardinality(CallsOf("UpdateMergeRequestNote")) <= 1
        /\ \A i \in CallsOf("UpdateMergeRequestNote") :
              Me.calls[i].target = GreatestTagged(Me.notes)
        /\ (Me.pc = "report") =>
              /\ Cardinality(CallsOf("UpdateMergeRequestNote")) = 1
              /\ \E j \in 1..Len(notes) :
                    /\ notes[j].ID = GreatestTagged(Me.notes)
                    /\ \A i \in CallsOf("UpdateMergeRequestNote") :
                          notes[j].Body = Me.calls[i].form["body"]
        /\ Len(notes) = Len(Me.notes)
        /\ \A j \in 1..Len(notes) :
              /\ notes[j].ID = Me.notes[j].ID
              /\ (notes[j].ID # GreatestTagged(Me.notes)) => notes[j] = Me.notes[j]

\* the upsert updated the later of two tagged notes, an inline note whose
\* message holds the heading, listed after a note that holds the marker
\* alone; the earlier summary and the note with the marker are as before
C12_Witness ==
    /\ Me.pc = "report"
    /\ Len(Me.notes) = 3
    /\ Tagged(Me.notes) = {2, 3}
    /\ Me.notes[1].Body = QuotedMarkerBody
    /\ Me.notes[2].Body = HeadingInlineBody
    /\ Me.notes[3].Body = OldSummaryBody
    /\ Me.notes[2].ID > Me.notes[3].ID
    /\ notes[2] # Me.notes[2]
    /\ notes[3] = Me.notes[3]
    /\ notes[1] = Me.notes[1]
    /\ Cardinality(CallsOf("UpdateMergeRequestNote")) = 1

\* ---------------------------------------------------------------------
\* Properties of whole runs
\* ---------------------------------------------------------------------
OkCallsOf(op) == {i \in CallsOf(op) : Me.calls[i].outcome = "ok"}

\* the run is not a dry run and has passed its summary upsert
CompletedNonDry ==
    /\ Me.pc \in {"report", "done"}
    /\ OkCallsOf("ListMergeRequestNotes") # {}

\* the targets of the requests op of the run, in the order of the requests
RECURSIVE TargetsFrom(_, _)
TargetsFrom(op, i) ==
    IF i > Len(Me.calls) THEN <<>>
    ELSE IF IsCall(Me.calls[i], op) THEN <<Me.calls[i].target>> \o TargetsFrom(op, i + 1)
    ELSE TargetsFrom(op, i + 1)

KeysOf(issues) == [i \in 1..Len(issues) |-> issues[i].Key]

\* the merge request held no thread and no note when the run began: the
\* thread listing was empty and the note listing holds the notes of the
\* threads the run created and nothing else
EmptyAtStart ==
    /\ OkCallsOf("ListMergeRequestDiscussions") # {}
    /\ Me.discussions = <<>>
    /\ Len(Me.notes) = Me.postedInlineCount

\* C13: a run that finds no thread makes no resolve request; a completed
\* run on a merge request that held no thread and no note has made one
\* inline request for every finding that passed the filters, in their
\* order, one create-note request and no update-note request, with and
\* without findings.
C13_FirstRunCreatesEverything ==
    /\ (OkCallsOf("ListMergeRequestDiscussions") # {} /\ Me.discussions = <<>>) =>
            CallsOf("ResolveMergeRequestDiscussion") = {}
    /\ (CompletedNonDry /\ EmptyAtStart) =>
            /\ TargetsFrom("CreateInlineDiscussion", 1) = KeysOf(Me.issues)
            /\ Cardinality(CallsOf("CreateMergeRequestNote")) = 1
            /\ CallsOf("UpdateMergeRequestNote") = {}

\* the identifiers of the threads of a listing that are open, resolvable
\* and carry the marker, in the order of the listing
RECURSIVE EligibleIDsFrom(_, _)
EligibleIDsFrom(ds, i) ==
    IF i > Len(ds) THEN <<>>
    ELSE IF Eligible(ds[i]) THEN <<ds[i].ID>> \o EligibleIDsFrom(ds, i + 1)
    ELSE EligibleIDsFrom(ds, i + 1)

Range(seq) == {seq[i] : i \in 1..Len(seq)}

\* C14: a completed run that has no finding to post, on a merge request
\* whose note listing holds a summary note, has made one resolve request
\* for every thread its listing shows open, resolvable and marked, and
\* these are resolved on the host; it has made exactly one update-note
\* request, no create-note request and no inline request.
C14_RerunResolvesAndUpdates ==
    (CompletedNonDry /\ Me.issues = <<>> /\ Tagged(Me.notes) # {}) =>
        /\ TargetsFrom("ResolveMergeRequestDiscussion", 1) = EligibleIDsFrom(Me.discussions, 1)
        /\ \A j \in 1..Len(discussions) :
              discussions[j].ID \in Range(EligibleIDsFrom(Me.discussions, 1)) =>
                  discussions[j].Resolved
        /\ Cardinality(CallsOf("UpdateMergeRequestNote")) = 1
        /\ CallsOf("CreateMergeRequestNote") = {}
        /\ CallsOf("CreateInlineDiscussion") = {}

\* the second run, without findings, resolved the two threads the first
\* run created and updated its summary note
C14_Witness ==
    /\ Me.n = 2
    /\ Me.pc = "done"
    /\ Me.issues = <<>>
    /\ Me.resolvedDiscussionsCount = 2
    /\ \A i \in 1..Len(Me.discussions) : Me.discussions[i].by = 1
    /\ \A j \in 1..Len(discussions) : discussions[j].Resolved
    /\ Me.summaryAction = "Updated"
    /\ notes0 = <<>>

\* C15: whenever a non-dry run has completed, a resolvable thread with the
\* marker is open exactly when that run created it, so the marker threads
\* of every earlier run are resolved; and no step changes a thread
\* without the marker.
C15_OnlyLatestRunThreadsOpen ==
    /\ [](CompletedNonDry =>
            \A j \in 1..Len(discussions) :
                (HasMarker(discussions[j]) /\ discussions[j].Resolvable) =>
                    (~discussions[j].Resolved <=> discussions[j].by = Me.n))
    /\ [][\A j \in 1..Len(discussions) :
            ~HasMarker(discussions[j]) => discussions'[j] = discussions[j]]_vars

\* after the second run the thread of the first run is resolved, a thread
\* of the second run is open and the human thread is open as it was
C15_Witness ==
    /\ Me.n = 2
    /\ Me.pc = "done"
    /\ CompletedNonDry
    /\ \E j \in 1..Len(discussions) : discussions[j].by = 1 /\ discussions[j].Resolved
    /\ \E j \in 1..Len(discussions) : discussions[j].by = 2 /\ ~discussions[j].Resolved
    /\ \E j \in 1..Len(discussions) :
          ~HasMarker(discussions[j]) /\ ~discussions[j].Resolved

IsMutation(c) == IsResolveCall(c) \/ IsInlineCall(c) \/ IsSummaryWrite(c)

\* C16: a dry run makes no resolve, inline, create-note or update-note
\* request, its counters of published comments and of resolved threads
\* stay zero, it fails only when one of its reads fails, by its request
\* or by the coverage of its answer, and no step of it changes a thread or
\* a note on the host.
C16_DryRunMutatesNothing ==
    /\ [](Me.cfg.DryRun =>
            /\ \A i \in 1..Len(Me.calls) : ~IsMutation(Me.calls[i])
            /\ Me.publishedCommentsCount = 0
            /\ Me.postedInlineCount = 0
            /\ Me.resolvedDiscussionsCount = 0
            /\ (Me.pc = "failed") =>
                  /\ Len(Me.calls) >= 1
                  /\ (Me.calls[Len(Me.calls)].outcome # "ok" \/ Me.err.cause = "parse"))
    /\ [][(run[1].cfg.DryRun /\ run'[1].n = run[1].n) =>
            UNCHANGED <<discussions, notes>>]_vars

\* a dry run with two findings for inline comments ended successfully on
\* a merge request that still has its stale thread open
C16_Witness ==
    /\ Me.cfg.DryRun
    /\ Me.pc = "done"
    /\ Len(Me.inlineIssues) = 2
    /\ Me.summaryAction = "Skipped (dry-run)"
    /\ \E j \in 1..Len(discussions) : Eligible(discussions[j])

\* the read of runWith a request belongs to: the two requests of
\* FetchQualityReport are one read
ReadOf(c) ==
    IF c.op \in {"fetchQualityGateStatus", "fetchCoverageMetrics"}
    THEN "FetchQualityReport" ELSE c.op

\* the reads and writes of the run in their order, the requests of one
\* read, page after page, counted once
RECURSIVE OpsFrom(_, _)
OpsFrom(calls, i) ==
    IF i > Len(calls) THEN <<>>
    ELSE IF i > 1 /\ ReadOf(calls[i]) = ReadOf(calls[i - 1]) /\ ~IsMutation(calls[i])
    THEN OpsFrom(calls, i + 1)
    ELSE <<ReadOf(calls[i])>> \o OpsFrom(calls, i + 1)

OpsOfRun == OpsFrom(Me.calls, 1)

\* the reads of runWith before the branch on cfg.DryRun
ReadsBeforeBranch ==
    <<"GetMergeRequest", "ListMergeRequestChanges", "ValidateAuthentication",
      "FetchProjectIssues", "FetchQualityReport">>

\* the requests of the run that belong to the reads before the branch
RequestsBeforeBranch ==
    {i \in 1..Len(Me.calls) :
        \E k \in 1..Len(ReadsBeforeBranch) : ReadOf(Me.calls[i]) = ReadsBeforeBranch[k]}

\* the pages of one listing the run asked for are 1, 2, ... in this order
PagesInOrder(op) ==
    \A i \in CallsOf(op) :
        Me.calls[i].target = Cardinality({j \in CallsOf(op) : j <= i})

IsListing(c) ==
    IsCall(c, "ListMergeRequestDiscussions") \/ IsCall(c, "ListMergeRequestNotes")

\* a run that went past config.Parse and returned nil
ReturnedNil == Me.pc = "done" /\ Len(Me.calls) >= 1

\* C17 as stated: a dry run that returns nil has made every read a
\* non-dry run makes, the listing of the threads and the listing of the
\* notes included.
C17_DryRunMakesEveryRead ==
    (Me.cfg.DryRun /\ ReturnedNil) =>
        /\ \A k \in 1..Len(ReadsBeforeBranch) :
              \E i \in 1..Len(Me.calls) : ReadOf(Me.calls[i]) = ReadsBeforeBranch[k]
        /\ CallsOf("ListMergeRequestDiscussions") # {}
        /\ CallsOf("ListMergeRequestNotes") # {}

\* C17, amended: a run that returns nil begins with the same five reads,
\* of the merge request, its changes, the SonarQube authentication, the
\* findings and the quality report, dry or not; a dry run makes no other
\* request, and what a non-dry run makes beyond them are the listing of
\* the threads, the listing of the notes and the mutations.
C17_DryRunMakesTheReadsBeforeTheBranch ==
    ReturnedNil =>
        /\ Len(OpsOfRun) >= Len(ReadsBeforeBranch)
        /\ SubSeq(OpsOfRun, 1, Len(ReadsBeforeBranch)) = ReadsBeforeBranch
        /\ RequestsBeforeBranch = 1..Cardinality(RequestsBeforeBranch)
        /\ Me.cfg.DryRun => Len(Me.calls) = Cardinality(RequestsBeforeBranch)
        /\ ~Me.cfg.DryRun =>
              /\ CallsOf("ListMergeRequestDiscussions") # {}
              /\ CallsOf("ListMergeRequestNotes") # {}
              /\ PagesInOrder("ListMergeRequestDiscussions")
              /\ PagesInOrder("ListMergeRequestNotes")
              /\ \A i \in (Cardinality(RequestsBeforeBranch) + 1)..Len(Me.calls) :
                    IsListing(Me.calls[i]) \/ IsMutation(Me.calls[i])

\* a dry run returned nil after its five reads on a merge request that
\* holds threads and notes it never listed
C17_Witness ==
    /\ Me.cfg.DryRun
    /\ ReturnedNil
    /\ OpsOfRun = ReadsBeforeBranch
    /\ Len(discussions) = 3
    /\ Len(notes) = 3
    /\ Me.discussions = <<>>
    /\ Me.notes = <<>>

\* the finding SonarQube answered with, as the run would hold it
AsIssue(f) ==
    [Key |-> f.key, Rule |-> f.rule, Severity |-> f.severity,
     Message |-> f.message, FilePath |-> extractFilePath(f.component), Line |-> f.line]

AtOrAboveThreshold(f) ==
    \/ Me.cfg.SeverityThreshold = ""
    \/ /\ IsValidSeverity(f.severity)
       /\ severityRank(f.severity) >= severityRank(Me.cfg.SeverityThreshold)

\* the five conditions under which a finding is project-level
IsProjectLevel(issue) ==
    LET path == normalizeRepoPath(issue.FilePath) IN
    \/ TrimSpace(issue.FilePath) = <<>>
    \/ issue.Line <= 0
    \/ path \notin DOMAIN Me.diffLineIndex.lines
    \/ issue.Line \notin DOMAIN Me.diffLineIndex.lines[path]
    \/ \E i \in 1..Len(Me.calls) :
          IsRejected(Me.calls[i]) /\ Me.calls[i].target = issue.Key

\* C18: in a completed non-dry run every fetched finding at or above the
\* threshold that is project-level, by a blank path, a non-positive line,
\* a path or a line that the diff index does not have, or a rejection of
\* its coordinates by the host, is in the numbered list of the summary
\* body the run wrote, and no inline request for it was accepted.
C18_ProjectLevelFindingsInSummary ==
    CompletedNonDry =>
        \A k \in 1..Len(Me.fetched) :
            (AtOrAboveThreshold(Me.fetched[k]) /\ IsProjectLevel(AsIssue(Me.fetched[k]))) =>
                /\ \A i \in 1..Len(Me.calls) :
                      IsSummaryWrite(Me.calls[i]) =>
                          ListsProjectLevel(Me.calls[i].form["body"], AsIssue(Me.fetched[k]))
                /\ \A i \in OkCallsOf("CreateInlineDiscussion") :
                      Me.calls[i].target # Me.fetched[k].key

\* the requests of a run that are made once whatever the inputs
SingleRequests ==
    {"GetMergeRequest", "ListMergeRequestChanges", "ValidateAuthentication",
     "fetchQualityGateStatus", "fetchCoverageMetrics"}

\* the reads of a run that ask for one page after the other
PagedRequests ==
    {"FetchProjectIssues", "ListMergeRequestDiscussions", "ListMergeRequestNotes"}

\* no two requests op of the run have the same target
DistinctTargets(op) ==
    \A i, j \in CallsOf(op) : i # j => Me.calls[i].target # Me.calls[j].target

IsFailedCall(c) == c.outcome \notin {"ok", "invalid_position"}

\* C19: within a run every read is requested at most once, page by page
\* for the paginated ones, every thread
\* is asked to be resolved at most once, every finding is submitted inline
\* at most once, the summary is created or updated at most once, and a
\* request that fails otherwise than by a coordinate rejection is the last
\* request of the run, which has returned an error.
C19_NoRequestIsRepeated ==
    /\ \A op \in SingleRequests : Cardinality(CallsOf(op)) <= 1
    /\ \A op \in PagedRequests : DistinctTargets(op) /\ PagesInOrder(op)
    /\ DistinctTargets("ResolveMergeRequestDiscussion")
    /\ DistinctTargets("CreateInlineDiscussion")
    /\ Cardinality(CallsOf("CreateMergeRequestNote")
                   \cup CallsOf("UpdateMergeRequestNote")) <= 1
    /\ \A i \in 1..Len(Me.calls) :
          IsFailedCall(Me.calls[i]) => (i = Len(Me.calls) /\ Me.pc = "failed")

\* the run failed at the update of the summary note, after a resolve
\* request and two inline requests of which the host rejected one
C19_Witness ==
    /\ Me.pc = "failed"
    /\ Me.err.prefix = SummaryPrefix
    /\ IsCall(Me.calls[Len(Me.calls)], "UpdateMergeRequestNote")
    /\ OkCallsOf("ResolveMergeRequestDiscussion") # {}
    /\ Cardinality(CallsOf("CreateInlineDiscussion")) = 2
    /\ \E i \in CallsOf("CreateInlineDiscussion") : IsRejected(Me.calls[i])

\* ---------------------------------------------------------------------
\* Properties of the severity filter
\* ---------------------------------------------------------------------
\* the canonical levels at or above a threshold, written out
LevelsFrom(t) ==
    CASE t = "INFO" -> {"INFO", "MINOR", "MAJOR", "CRITICAL", "BLOCKER"}
      [] t = "MINOR" -> {"MINOR", "MAJOR", "CRITICAL", "BLOCKER"}
      [] t = "MAJOR" -> {"MAJOR", "CRITICAL", "BLOCKER"}
      [] t = "CRITICAL" -> {"CRITICAL", "BLOCKER"}
      [] t = "BLOCKER" -> {"BLOCKER"}
      [] OTHER -> {}

RanksAtOrAbove(issue) == ToUpper(issue.Severity) \in LevelsFrom(Me.cfg.SeverityThreshold)

\* C20: with a non-empty threshold the severity filter returns exactly the
\* findings whose severity, read without regard to case, is one of the five
\* levels at or above the threshold, in the order of the input, and drops
\* the findings of an unrecognized severity; with an empty threshold it
\* returns the input as it is.
C20_SeverityFilter ==
    mpc = "filtered" =>
        /\ Me.cfg.SeverityThreshold = "" => filtered = issuesIn
        /\ Me.cfg.SeverityThreshold # "" => filtered = SelectSeq(issuesIn, RanksAtOrAbove)

\* the test's six findings filtered at MAJOR: J, C and B are kept, in order
C20_Witness ==
    /\ mpc = "filtered"
    /\ issuesIn = SeverityTestIssues
    /\ Me.cfg.SeverityThreshold = "MAJOR"
    /\ KeysOf(filtered) = <<"J", "C", "B">>

\* ---------------------------------------------------------------------
\* Properties of the index build
\* ---------------------------------------------------------------------
\* the changes that write under a path key: a usable path and a diff with
\* at least one visible line
WritersOf(key) ==
    {i \in 1..Len(changesIn) :
        /\ normalizeRepoPath(changesIn[i].NewPath) = key
        /\ DOMAIN extractDiffLines(changesIn[i].Diff) # {}}

LastOf(S) == CHOOSE i \in S : \A j \in S : j <= i

\* C21: after the build, the line map and the path identity under every
\* key are those derived from the last changed file that normalizes to the
\* key, and from that file alone.
C21_LaterFileOverwrites ==
    mpc \in {"filter", "done"} =>
        \A key \in DOMAIN index.lines :
            LET last == changesIn[LastOf(WritersOf(key))] IN
                /\ index.lines[key] = extractDiffLines(last.Diff)
                /\ index.pathMap[key] = pathInfo(last.OldPath, last.NewPath)

\* ---------------------------------------------------------------------
\* Hunk headers that do not parse
\* ---------------------------------------------------------------------
\* after the first p lines the parser is outside every valid hunk: no
\* header was read yet, or the last one read does not parse
OutsideHunk(p) ==
    LET hs == {h \in Headers(diff) : h <= p} IN
        hs = {} \/ ~ParsesOk(diff[LastOf(hs)])

CursorsKept ==
    /\ result' = result
    /\ currentOldLine' = currentOldLine
    /\ currentNewLine' = currentNewLine

\* C22: a header line that does not parse switches the parser to
\* not-in-hunk and changes neither the index nor a cursor; from then on,
\* and before the first header that parses, a line that is not itself a
\* header that parses produces no index entry and moves no cursor.
C22_MalformedHeaderLeavesHunk ==
    [][pos' = pos + 1 =>
        LET line == diff[pos + 1] IN
            /\ (IsHeaderLine(line) /\ ~ParsesOk(line)) => (~inHunk' /\ CursorsKept)
            /\ (OutsideHunk(pos) /\ ~ParsesOk(line)) => (~inHunk' /\ CursorsKept)]_vars

\* a hunk indexed line 1, a header that does not parse followed, and the
\* added line after it was read without being indexed
C22_Witness ==
    /\ diff = <<HunkHeader(0, 1), TextLine(<<"+", "x">>), BadHeader, TextLine(<<"+", "x">>)>>
    /\ pos = Len(diff)
    /\ DOMAIN result = {1}
    /\ ~inHunk

\* ---------------------------------------------------------------------
\* Runs that get no configuration
\* ---------------------------------------------------------------------
\* C23: a run whose configuration parsing asked for the documentation has
\* written it, has returned nil and has made no request; a run whose
\* parsing failed otherwise has returned that error, has written nothing
\* and has made no request.
C23_NoConfigurationNoRequest ==
    /\ Me.stdout = <<HelpMessage>> =>
          /\ Me.pc = "done"
          /\ Me.err = NoErr
          /\ Me.calls = <<>>
    /\ Me.err.cause = "config" =>
          /\ Me.pc = "failed"
          /\ Me.stdout = <<>>
          /\ Me.calls = <<>>
    /\ (Me.n >= 1 /\ Me.calls = <<>> /\ Me.pc \in {"done", "failed"}) =>
          (Me.stdout = <<HelpMessage>> \/ Me.err.cause = "config")

\* the second run of the process was asked for the documentation, wrote
\* it and returned without a request
C23_Witness ==
    /\ Me.n = 2
    /\ Me.stdout = <<HelpMessage>>
    /\ Me.pc = "done"
    /\ Me.calls = <<>>

\* ---------------------------------------------------------------------
\* Rejected credentials
\* ---------------------------------------------------------------------
AuthenticationPrefixes ==
    {"failed to authenticate in GitLab API", "failed to authenticate in SonarQube API"}

\* C24: when a request of the run is rejected for credentials, the run has
\* failed with an error that is ErrUnauthorized underneath and whose
\* message starts with the authentication prefix of the host.
C24_UnauthorizedHasItsOwnPrefix ==
    \A i \in 1..Len(Me.calls) :
        Me.calls[i].outcome = "unauthorized" =>
            /\ Me.pc = "failed"
            /\ Me.err.cause = "unauthorized"
            /\ Me.err.prefix \in AuthenticationPrefixes

\* ---------------------------------------------------------------------
\* Properties of the paginated listings
\* ---------------------------------------------------------------------
\* the list the host holds for the listing under way
HostList == IF discussions # <<>> THEN discussions ELSE notes

\* C25: a listing requests page 1 and then the page each answer names,
\* one request for each page and one after the other; it returns at the
\* first answer that names no following page, with the items of all pages
\* in page order; when a page fails it returns the error and no list.
C25_ListingFollowsThePages ==
    /\ \A i \in 1..Len(Me.calls) :
          /\ Me.calls[i].op = Me.calls[1].op
          /\ Me.calls[i].target = i
          /\ i < Len(Me.calls) =>
                (Me.calls[i].outcome = "ok" /\ NextPageOf(HostList, i) = i + 1)
    /\ Me.pc = "returned" =>
          /\ Me.calls[Len(Me.calls)].outcome = "ok"
          /\ NextPageOf(HostList, Len(Me.calls)) = 0
          /\ Len(Me.calls) * PageSize >= Len(HostList)
          /\ Me.listed = HostList
    /\ Me.pc = "failed" =>
          /\ Me.calls[Len(Me.calls)].outcome # "ok"
          /\ Me.err.cause = Me.calls[Len(Me.calls)].outcome
          /\ Me.listed = <<>>
    /\ Me.pc \in {"discussionsPage", "notesPage"} =>
          /\ Me.page = Len(Me.calls) + 1
          /\ Me.listed = <<>>

\* a listing of discussions that took more than one page has returned
\* all of them
C25_Witness ==
    /\ Me.pc = "returned"
    /\ Len(Me.calls) >= 2
    /\ Me.calls[1].op = "ListMergeRequestDiscussions"
    /\ Me.listed = discussions

\* ---------------------------------------------------------------------
\* Properties of FetchProjectIssues
\* ---------------------------------------------------------------------
\* C26: from a host that reports its page size and the number of its
\* issues, FetchProjectIssues returns every issue of every page, in page
\* order, an issue without a line binding with Line = 0.
C26_EveryIssueIsReturned ==
    (Me.pc = "returned" /\ Me.paging.pageSize > 0 /\ Me.paging.total = Len(Me.fetched)) =>
        Me.listed = [i \in 1..Len(Me.fetched) |-> AsIssue(Me.fetched[i])]

\* ---------------------------------------------------------------------
\* The action log
\* ---------------------------------------------------------------------
\* the places of the first line of the action log in what the run wrote
ActionLogLines == {i \in 1..Len(Me.stdout) : "published" \in DOMAIN Me.stdout[i]}

\* the run has written its action log
Reported == ActionLogLines # {}

\* the published-comments count the action log prints
PrintedPublished == Me.stdout[CHOOSE i \in ActionLogLines : TRUE].published

\* C27: the published-comments count of the action log of a non-dry run is
\* the number of inline discussions posted with success plus one for the
\* summary note the run created or updated; a dry run prints zero.
C27_PublishedCountsInlineAndSummary ==
    Reported =>
        /\ ~Me.cfg.DryRun =>
              PrintedPublished = Cardinality(OkCallsOf("CreateInlineDiscussion")) + 1
        /\ Me.cfg.DryRun => PrintedPublished = 0

\* ---------------------------------------------------------------------
\* Renamed files
\* ---------------------------------------------------------------------
InlineCallsFor(key) ==
    {i \in 1..Len(Me.calls) : IsInlineCall(Me.calls[i]) /\ Me.calls[i].target = key}

IsNewPath(path) ==
    \E j \in 1..Len(Me.changes) :
        normalizeRepoPath(Me.changes[j].NewPath) = normalizeRepoPath(path)

\* FetchProjectIssues has returned after its last page
FetchCompleted ==
    Me.pc = "fetchQualityReport" \/ CallsOf("fetchQualityGateStatus") # {}

\* the findings FetchProjectIssues handed to the run
Returned == IF FetchCompleted THEN FetchProjectIssues(Me.fetched) ELSE <<>>

\* C28: for a changed file renamed from P to Q, a finding reported at Q on
\* a line of the file's diff is kept and every inline request for it
\* carries old_path = P and new_path = Q; a finding reported at P is
\* dropped and never submitted unless P is the new path of a changed file.
C28_RenamesLookUpByNewPath ==
    \A k \in 1..Len(Me.changes) :
        LET P == Me.changes[k].OldPath
            Q == Me.changes[k].NewPath
        IN  P # Q =>
            \A n \in 1..Len(Returned) :
                LET issue == Returned[n] IN
                /\ ( /\ normalizeRepoPath(issue.FilePath) = normalizeRepoPath(Q)
                     /\ issue.Line \in DOMAIN extractDiffLines(Me.changes[k].Diff)
                     /\ KeepsSeverity(issue, Me.cfg.SeverityThreshold) ) =>
                        /\ \E m \in 1..Len(Me.issues) : Me.issues[m] = issue
                        /\ \A i \in InlineCallsFor(issue.Key) :
                              /\ Me.calls[i].form["position[old_path]"] = P
                              /\ Me.calls[i].form["position[new_path]"] = TrimSpace(Q)
                /\ ( /\ normalizeRepoPath(issue.FilePath) = normalizeRepoPath(P)
                     /\ ~IsNewPath(P) ) =>
                        /\ \A m \in 1..Len(Me.issues) : Me.issues[m] # issue
                        /\ InlineCallsFor(issue.Key) = {}

\* the file b was renamed to ./a: the finding A on a was submitted with
\* old_path b and new_path ./a, the finding H on b was dropped
C28_Witness ==
    /\ Me.changes = <<MergeRequestChange(PathB, PathDotA, DiffEdit)>>
    /\ \E n \in 1..Len(Returned) :
          /\ Returned[n].Key = "H"
          /\ \A m \in 1..Len(Me.issues) : Me.issues[m].Key # "H"
    /\ \E i \in OkCallsOf("CreateInlineDiscussion") :
          /\ Me.calls[i].form["position[old_path]"] = PathB
          /\ Me.calls[i].form["position[new_path]"] = PathDotA

\* ---------------------------------------------------------------------
\* Properties of fetchCoverageMetrics
\* ---------------------------------------------------------------------
HasMetric(metric) == \E i \in 1..Len(Me.items) : Me.items[i].Metric = metric

\* every value of the metric in the answer is a number, or is among allowed
ValuesAreNumbersOr(metric, allowed) ==
    \A i \in 1..Len(Me.items) :
        Me.items[i].Metric = metric =>
            (ParseFloat(Me.items[i].Value).ok \/ Me.items[i].Value \in allowed)

\* the answer held both metrics, coverage as a number and new_coverage with
\* an empty value
NewCoverageIsEmpty ==
    /\ HasMetric("coverage")
    /\ ValuesAreNumbersOr("coverage", {})
    /\ \E i \in 1..Len(Me.items) : Me.items[i] = apiMeasure("new_coverage", "")
    /\ \A i \in 1..Len(Me.items) : Me.items[i].Metric = "new_coverage" => Me.items[i].Value = ""

\* C29: when the host has answered, a new_coverage metric present with an
\* empty value gives new code coverage 0 and success, and the call fails
\* with the missing-metrics error only when one of the two metrics is
\* absent from the answer.
C29_EmptyNewCoverageIsZero ==
    (Me.calls # <<>> /\ Me.calls[1].outcome = "ok") =>
        /\ NewCoverageIsEmpty =>
              (Me.pc = "returned" /\ Me.qualityReport.NewCodeCoverage = FloatZero)
        /\ Me.err.prefix = MissingMetricsPrefix =>
              (~HasMetric("coverage") \/ ~HasMetric("new_coverage"))

\* ---------------------------------------------------------------------
\* The deadline of the run
\* ---------------------------------------------------------------------
\* C30: the requests of a run share the one deadline set when the run
\* starts.  Once it has passed it stays passed for the run, the next
\* request fails, the run returns that one error without a further
\* request, and from the expiry on the threads and notes of the merge
\* request stay as they were: nothing is undone and nothing more is done.
C30_DeadlineEndsTheRun ==
    /\ [](Expired(Me) =>
            /\ Len(Me.calls) <= Me.expiredAfter + 1
            /\ Len(Me.calls) = Me.expiredAfter + 1 =>
                  /\ Me.calls[Len(Me.calls)].outcome = "failed"
                  /\ Me.pc = "failed"
                  /\ Me.err.cause = "failed")
    /\ [][Expired(Me) =>
            /\ Me'.expiredAfter = Me.expiredAfter
            /\ discussions' = discussions
            /\ notes' = notes]_vars

\* the deadline passed after the run had resolved a thread; the next
\* request failed, the run returned its error and the thread is resolved
C30_Witness ==
    /\ Expired(Me)
    /\ Me.pc = "failed"
    /\ Len(Me.calls) = Me.expiredAfter + 1
    /\ \E i \in OkCallsOf("ResolveMergeRequestDiscussion") :
          \E d \in 1..Len(discussions) :
              discussions[d].ID = Me.calls[i].target /\ discussions[d].Resolved

\* ---------------------------------------------------------------------
\* File-marker lines inside a hunk
\* ---------------------------------------------------------------------
IsMarkerLine(line) == HasPrefix(line.text, Plus3) \/ HasPrefix(line.text, Minus3)

\* C31: while the parser is in a hunk, a line that begins with "+++" or
\* "---" records no index entry, leaves both cursors where they are and
\* leaves the parser in the hunk.
C31_MarkerLinesAreIgnored ==
    [][(pos' = pos + 1 /\ inHunk /\ IsMarkerLine(diff[pos + 1])) =>
            (CursorsKept /\ inHunk')]_vars

\* in a hunk that starts at new line 3, a context line was indexed, a
\* "+++" line and a "---" line were read, and the cursors stand after
\* the context line
C31_Witness ==
    /\ diff = <<HunkHeader(2, 3), TextLine(<<" ", "x">>), TextLine(Plus3), TextLine(Minus3)>>
    /\ pos = Len(diff)
    /\ DOMAIN result = {3}
    /\ currentOldLine = 3
    /\ currentNewLine = 4
    /\ inHunk

\* ---------------------------------------------------------------------
\* Properties of CreateInlineDiscussion
\* ---------------------------------------------------------------------
\* the answer of the host is a refusal that is not one of credentials and
\* whose text, as far as it is read, holds both phrases
RefusedForPosition(resp) ==
    /\ resp.status # 0
    /\ resp.status \notin {401, 403}
    /\ resp.status < 200 \/ resp.status >= 300
    /\ \E i, j \in 1..MaxErrorBody :
          /\ i <= Len(resp.body) /\ resp.body[i] = "line_code"
          /\ j <= Len(resp.body) /\ resp.body[j] = "valid line code"

\* C32: CreateInlineDiscussion reports a coordinate rejection exactly when
\* it sent the request and the host refused it with a status other than
\* 401 and 403 and a text that holds both "line_code" and "valid line
\* code" within the part of the body that is read; a 401 or 403 is
\* reported as unauthorized and refused arguments as an error of their
\* own, without a request.
C32_RejectionIsRecognizedByItsText ==
    Me.pc = "returned" =>
        LET args == Me.items[1]
            resp == Me.items[2]
            ret == Me.listed[1]
            valid == InlineArgumentsValid(args.body, args.oldPath, args.newPath,
                                          args.oldLine, args.newLine, args.diffRefs)
        IN  /\ ret.outcome = "invalid_position" <=> (valid /\ RefusedForPosition(resp))
            /\ (valid /\ resp.status \in {401, 403}) => ret.outcome = "unauthorized"
            /\ ~valid => (ret.outcome = "argument" /\ ~ret.sent)

\* the host refused valid coordinates with status 400 and both phrases
C32_Witness ==
    /\ Me.pc = "returned"
    /\ Me.items[2] = [status |-> 400, body |-> <<"line_code", "valid line code">>]
    /\ Me.listed[1] = [outcome |-> "invalid_position", sent |-> TRUE]

\* the loop of FetchProjectIssues ends after page p
StopsAfter(p) == Me.paging.pageSize <= 0 \/ p * Me.paging.pageSize >= Me.paging.total

\* C33: FetchProjectIssues requests the pages 1, 2, 3, ... in order, one
\* request each, and goes on to the next page only after an answer that
\* reports a positive page size with page * pageSize < total; it returns
\* after the first page that does not, so that it never makes more
\* requests than the reported total has pages of the reported size, and
\* a page that fails makes it return the error and no issues.
C33_IssuePagesUntilTotal ==
    /\ \A i \in 1..Len(Me.calls) :
          /\ Me.calls[i].target = i
          /\ i < Len(Me.calls) => (Me.calls[i].outcome = "ok" /\ ~StopsAfter(i))
    /\ Me.pc = "issuesPage" => Me.page = Len(Me.calls) + 1
    /\ Me.pc = "returned" =>
          /\ Me.calls[Len(Me.calls)].outcome = "ok"
          /\ StopsAfter(Len(Me.calls))
    /\ Me.pc = "failed" =>
          /\ Me.calls[Len(Me.calls)].outcome # "ok"
          /\ Me.listed = <<>>
    /\ Me.paging.pageSize > 0 =>
          (Len(Me.calls) <= 1 \/ (Len(Me.calls) - 1) * Me.paging.pageSize < Me.paging.total)

\* the host reported a page size above the one asked for and three
\* issues in all: two requests were made and the call returned
C33_Witness ==
    /\ Me.pc = "returned"
    /\ Me.paging = [pageSize |-> PageSize + 1, total |-> 3]
    /\ Len(Me.fetched) = 3
    /\ Len(Me.calls) = 2

\* the entry a line map keeps at key n is well formed
WellFormedEntry(info, n) ==
    /\ n >= 1
    /\ info.newLine = n
    /\ info.lineType \in {lineTypeAdded, lineTypeContext}
    /\ info.lineType = lineTypeAdded => info.oldLine = 0

WellFormedIndex(ix) ==
    /\ DOMAIN ix.lines = DOMAIN ix.pathMap
    /\ \A path \in DOMAIN ix.lines :
          /\ DOMAIN ix.lines[path] # {}
          /\ \A n \in DOMAIN ix.lines[path] : WellFormedEntry(ix.lines[path][n], n)

\* C34: the index buildDiffLineIndex builds has the same paths in its line
\* map and in its path map, no empty line map, and at every key n >= 1 an
\* entry with newLine = n, of type Added or Context, with oldLine = 0 when
\* Added; once built, the index is not changed.
C34_IndexIsWellFormedAndFrozen ==
    /\ [](mpc # "build" => WellFormedIndex(index))
    /\ [][mpc # "build" => index' = index]_vars

\* an index of two files, one with an added and one with a context line,
\* built from changes of which one showed no line, after the filter ran
C34_Witness ==
    /\ mpc = "done"
    /\ Len(changesIn) = 2
    /\ \E i \in 1..2 : changesIn[i].Diff = DiffEdit
    /\ \E i \in 1..2 : changesIn[i].Diff = DiffNewFile
    /\ Cardinality(DOMAIN index.lines) = 2
    /\ \E path \in DOMAIN index.lines, n \in 1..4 :
          /\ n \in DOMAIN index.lines[path]
          /\ index.lines[path][n].lineType = lineTypeContext

\* ---------------------------------------------------------------------
\* Where the findings of a run end
\* ---------------------------------------------------------------------
\* the run is not a dry run and has come to upsertSummaryNote
ReachedSummaryUpsert ==
    /\ ~Me.cfg.DryRun
    /\ \/ Me.pc \in {"listNotes", "upsert"}
       \/ CallsOf("ListMergeRequestNotes") # {}

\* the places of the finding in the project-level list of the run
ProjectLevelPlaces(issue) ==
    {k \in 1..Len(Me.projectLevelIssues) : Me.projectLevelIssues[k] = issue}

PostedInline(issue) ==
    \E i \in InlineCallsFor(issue.Key) : Me.calls[i].outcome = "ok"

\* C35: in a run that is not a dry run and comes to the summary upsert,
\* every finding that passed the diff filter and the severity filter was
\* submitted inline exactly once and is either posted inline or once in
\* the project-level list of the summary, not both, and the number of
\* posted findings plus the length of that list is the number of the
\* findings.
C35_EveryFindingPostedOrListed ==
    ReachedSummaryUpsert =>
        /\ \A k \in 1..Len(Me.issues) :
              LET issue == Me.issues[k] IN
              /\ Cardinality(InlineCallsFor(issue.Key)) = 1
              /\ PostedInline(issue) => ProjectLevelPlaces(issue) = {}
              /\ ~PostedInline(issue) => Cardinality(ProjectLevelPlaces(issue)) = 1
        /\ \A k \in 1..Len(Me.projectLevelIssues) :
              \E j \in 1..Len(Me.issues) : Me.issues[j] = Me.projectLevelIssues[k]
        /\ Me.postedInlineCount = Cardinality(OkCallsOf("CreateInlineDiscussion"))
        /\ Me.postedInlineCount + Len(Me.projectLevelIssues) = Len(Me.issues)

\* a run wrote its summary after one finding was posted inline and another
\* was refused for its position
C35_Witness ==
    /\ ReachedSummaryUpsert
    /\ Me.pc = "done"
    /\ Len(Me.issues) >= 2
    /\ Me.postedInlineCount >= 1
    /\ Len(Me.projectLevelIssues) >= 1

\* ---------------------------------------------------------------------
\* The comment bodies of a run: formatMergeRequestSummaryComment and
\* formatInlineIssueComment over findings of every severity spelling
\* ---------------------------------------------------------------------
QualityReportKinds ==
    {[QualityGateStatus |-> "passed", OverallCoverage |-> ParseFloat("82.7").parsed,
      NewCodeCoverage |-> ParseFloat("12.5").parsed],
     [QualityGateStatus |-> " FAILED ", OverallCoverage |-> ParseFloat("1.005").parsed,
      NewCodeCoverage |-> FloatZero],
     [QualityGateStatus |-> "", OverallCoverage |-> FloatZero, NewCodeCoverage |-> FloatZero]}

CommentsInit ==
    /\ issuesIn \in SeqsUpTo(SeverityIssueKinds, MaxIssues)
    /\ \E report \in QualityReportKinds :
          run = [r \in Procs |->
                    IF r = 1 THEN [IdleRun EXCEPT !.qualityReport = report, !.n = 1]
                    ELSE IdleRun]
    /\ changesIn = <<>>
    /\ index = EmptyIndex
    /\ filtered = <<>>
    /\ mpc = "summary"
    /\ discussions = <<>>
    /\ notes = <<>>
    /\ notes0 = <<>>
    /\ runsStarted = 1
    /\ DiffIdle

\* main.go:248: the summary of the findings, of which the first k are
\* without an inline comment; the body is kept in run[1].listed
FormatSummary ==
    /\ mpc = "summary"
    /\ \E k \in 0..Len(issuesIn) :
          run' = [run EXCEPT ![1].issues = issuesIn,
                             ![1].projectLevelIssues = SubSeq(issuesIn, 1, k),
                             ![1].listed = formatMergeRequestSummaryComment(
                                              run[1].qualityReport, issuesIn,
                                              SubSeq(issuesIn, 1, k))]
    /\ mpc' = "inline"
    /\ UNCHANGED <<changesIn, issuesIn, index, filtered, hostVars, runsStarted, diffVars>>

\* main.go:204: the inline comments of the findings, kept in run[1].items
FormatInline ==
    /\ mpc = "inline"
    /\ run' = [run EXCEPT ![1].items =
                  [i \in 1..Len(issuesIn) |-> formatInlineIssueComment(issuesIn[i])]]
    /\ mpc' = "done"
    /\ UNCHANGED <<changesIn, issuesIn, index, filtered, hostVars, runsStarted, diffVars>>

CommentsNext == FormatSummary \/ FormatInline

SpecComments == CommentsInit /\ [][CommentsNext]_vars

\* a count, read back from the digits the summary shows
ParseCount(text) == CHOOSE n \in 0..(MaxIssues + 1) : ToString(n) = text

SummaryRendered == mpc \in {"inline", "done"}

\* the lines of the body that begin with the pieces
LinesWith(body, pieces) ==
    {i \in 1..Len(body) : Len(body[i]) > Len(pieces) /\ SubSeq(body[i], 1, Len(pieces)) = pieces}

\* the count the body shows for the severity (-1: not exactly one line)
ShownCount(body, severity) ==
    LET at == LinesWith(body, <<"- ", severity, ": ">>) IN
    IF Cardinality(at) # 1 THEN -1
    ELSE ParseCount(body[CHOOSE i \in at : TRUE][4])

\* the count of the UNKNOWN line, 0 when the body has none
ShownUnknown(body) ==
    LET at == LinesWith(body, <<"- UNKNOWN: ">>) IN
    IF at = {} THEN 0 ELSE ParseCount(body[CHOOSE i \in at : TRUE][2])

ShownTotal(body) ==
    LET at == LinesWith(body, <<"- Total issues: ">>) IN
    IF Cardinality(at) # 1 THEN -1
    ELSE ParseCount(body[CHOOSE i \in at : TRUE][2])

RECURSIVE SumOfShown(_, _)
SumOfShown(body, i) ==
    IF i > Len(summarySeverityOrder) THEN 0
    ELSE ShownCount(body, summarySeverityOrder[i]) + SumOfShown(body, i + 1)

\* the buckets of the summary a finding is counted in
BucketsOf(issue) ==
    {s \in {summarySeverityOrder[i] : i \in 1..Len(summarySeverityOrder)} :
        CountSeverity(<<issue>>, s) = 1}
    \cup (IF unknownSeverityCount(<<issue>>) = 1 THEN {"UNKNOWN"} ELSE {})

\* C36: in a rendered summary the counts of BLOCKER, CRITICAL, MAJOR,
\* MINOR and INFO plus the count of UNKNOWN (0 when its line is left out)
\* add up to the value of "Total issues", which is the number of the
\* findings passed in, and every finding is counted in exactly one bucket.
C36_SeverityCountsAddUp ==
    SummaryRendered =>
        /\ \A i \in 1..Len(summarySeverityOrder) :
              ShownCount(Me.listed, summarySeverityOrder[i]) >= 0
        /\ ShownTotal(Me.listed) = Len(issuesIn)
        /\ SumOfShown(Me.listed, 1) + ShownUnknown(Me.listed) = ShownTotal(Me.listed)
        /\ \A k \in 1..Len(issuesIn) : Cardinality(BucketsOf(issuesIn[k])) = 1

\* a summary of three findings: one MAJOR, one spelled "major" and one of
\* an unknown severity
C36_Witness ==
    /\ SummaryRendered
    /\ Len(issuesIn) = 3
    /\ ShownCount(Me.listed, "MAJOR") = 2
    /\ ShownUnknown(Me.listed) = 1
    /\ \E k \in 1..3 : issuesIn[k].Severity = "major"

\* the thread GitLab keeps for an inline comment nobody has resolved
OpenThreadOf(body) == Discussion(1, FALSE, TRUE, <<body>>, 1)

\* C37: every body formatMergeRequestSummaryComment produces has the
\* marker and the summary heading, so that isSummaryNote holds of it and
\* findLatestSummaryNote finds it among the notes, and every body
\* formatInlineIssueComment produces has the marker, so that its open
\* thread is one resolvePreviousSonarDiscussions resolves.
C37_OutputIsRecognized ==
    /\ SummaryRendered =>
          /\ Contains(Me.listed, commentMarker)
          /\ Contains(Me.listed, summaryHeading)
          /\ isSummaryNote(Me.listed)
          /\ findLatestSummaryNote(<<Note(1, HumanBody), Note(2, Me.listed)>>).found
          /\ findLatestSummaryNote(<<Note(1, HumanBody), Note(2, Me.listed)>>).latestOne.ID = 2
    /\ mpc = "done" =>
          /\ Len(Me.items) = Len(issuesIn)
          /\ \A i \in 1..Len(Me.items) :
                /\ commentHasMarker(Me.items[i])
                /\ IsStaleSonarDiscussion(OpenThreadOf(Me.items[i]))

\* the summary and the inline comments of two findings, one of an unknown
\* severity, have been formatted, the summary with a project-level list
C37_Witness ==
    /\ mpc = "done"
    /\ Len(Me.items) = 2
    /\ Len(Me.projectLevelIssues) = 1
    /\ Me.qualityReport.QualityGateStatus = ""
    /\ \E k \in 1..2 : issuesIn[k].Severity = "UNKNOWN"

\* ---------------------------------------------------------------------
\* Two runs for the same merge request at the same time: two processes,
\* each past config.Parse and not a dry run, whose requests reach the
\* hosts in any order
\* ---------------------------------------------------------------------
\* the merge request the two runs are for: new, or with a thread of an
\* earlier run and a note of a person; it has no summary note
TwoRunsMergeRequests ==
    {[discussions |-> <<>>, notes |-> <<>>],
     [discussions |-> <<Discussion(1, FALSE, TRUE, <<OldInlineBody>>, 0)>>,
      notes |-> <<Note(1, HumanBody)>>]}

TwoRunsInit ==
    /\ \E mr \in TwoRunsMergeRequests :
          /\ discussions = mr.discussions
          /\ notes = mr.notes
          /\ notes0 = mr.notes
    /\ run = [r \in Procs |->
                [IdleRun EXCEPT !.n = r, !.pc = AfterParse("ok"),
                                !.cfg = [DryRun |-> FALSE, SeverityThreshold |-> ""]]]
    /\ runsStarted = 2
    /\ DiffIdle
    /\ MatchIdle

\* the run has the findings of the project
HasFetched(r) == run[r].paging.pageSize > 0

\* both runs are for the same changeset of the same project: the hosts
\* give both the same changes and the same findings, the merge request
\* has its diff refs, the quality gate has passed with the coverage of
\* the first answer of RunMeasureInputs, and the hosts accept the tokens;
\* no message of a finding holds the heading of the summary, so that no
\* inline note is taken for a summary note
SameChangeset ==
    /\ (run[1].changes # <<>> /\ run[2].changes # <<>>) => run[1].changes = run[2].changes
    /\ (HasFetched(1) /\ HasFetched(2)) => run[1].fetched = run[2].fetched
    /\ \A r \in Procs : \A i \in 1..Len(run[r].fetched) :
          ~ContainsString(run[r].fetched[i].message, summaryHeading)
    /\ \A r \in Procs :
          /\ run[r].pc = "listChanges" => run[r].diffRefs = CompleteDiffRefs
          /\ run[r].qualityReport.QualityGateStatus \in {"", "passed"}
          /\ run[r].qualityReport.NewCodeCoverage \in {FloatZero, Float(FALSE, "70", "")}
          /\ run[r].err.cause # "unauthorized"

TwoRunsNext ==
    \/ GetMergeRequest(1) /\ SameChangeset'
    \/ ListMergeRequestChanges(1) /\ SameChangeset'
    \/ ValidateAuthentication(1) /\ SameChangeset'
    \/ FetchIssues(1) /\ SameChangeset'
    \/ FetchQualityReport(1) /\ SameChangeset'
    \/ FetchCoverageOfReport(1) /\ SameChangeset'
    \/ ListMergeRequestDiscussions(1) /\ SameChangeset'
    \/ ResolveDiscussion(1) /\ SameChangeset'
    \/ PostInlineDiscussion(1) /\ SameChangeset'
    \/ ListMergeRequestNotes(1) /\ SameChangeset'
    \/ UpsertSummaryNote(1) /\ SameChangeset'
    \/ WriteReport(1) /\ SameChangeset'
    \/ GetMergeRequest(2) /\ SameChangeset'
    \/ ListMergeRequestChanges(2) /\ SameChangeset'
    \/ ValidateAuthentication(2) /\ SameChangeset'
    \/ FetchIssues(2) /\ SameChangeset'
    \/ FetchQualityReport(2) /\ SameChangeset'
    \/ FetchCoverageOfReport(2) /\ SameChangeset'
    \/ ListMergeRequestDiscussions(2) /\ SameChangeset'
    \/ ResolveDiscussion(2) /\ SameChangeset'
    \/ PostInlineDiscussion(2) /\ SameChangeset'
    \/ ListMergeRequestNotes(2) /\ SameChangeset'
    \/ UpsertSummaryNote(2) /\ SameChangeset'
    \/ WriteReport(2) /\ SameChangeset'

SpecTwoRuns == TwoRunsInit /\ [][TwoRunsNext]_vars

BothRunsFinished == \A r \in Procs : run[r].pc \in {"done", "failed"}

\* C38: when the requests of two runs that are not dry runs reach the
\* hosts in any order and the merge request had at most one note with the
\* marker and the summary heading, it has at most one such note after
\* both runs have finished.
C38_SingleSummaryWhenRunsInterleave ==
    (BothRunsFinished /\ Cardinality(SummaryNotes(notes0)) <= 1) =>
        Cardinality(SummaryNotes(notes)) <= 1

\* ---------------------------------------------------------------------
\* Whole hunks
\* ---------------------------------------------------------------------
\* the number in the new file of line i of the body of a hunk
TrueNewLine(lines, i) ==
    LET h == HunkOf(lines, i) IN
    lines[h].newStart
      + Cardinality({j \in HunkBody(lines, h) :
                        j < i /\ (IsAddedLine(lines[j]) \/ IsContextLine(lines[j]))})

\* the number in the old file of line i of the body of a hunk
TrueOldLine(lines, i) ==
    LET h == HunkOf(lines, i) IN
    lines[h].oldStart
      + Cardinality({j \in HunkBody(lines, h) :
                        j < i /\ (IsRemovedLine(lines[j]) \/ IsContextLine(lines[j]))})

\* the lines of the new file the hunk with the header at h shows
NewLinesOf(lines, h) ==
    lines[h].newStart .. (lines[h].newStart + NewCount(lines, h) - 1)

\* C39: of a well-formed diff with hunks that do not overlap, whatever
\* the content of its added, removed and context lines, extractDiffLines
\* records for every hunk exactly the keys newStart .. newStart +
\* newCount - 1, and the entry of every context line has the number the
\* line has in the old file as its oldLine.
C39_HunkIsRecordedWhole ==
    (pos = Len(diff) /\ WellFormedDiff(diff)) =>
        /\ DOMAIN result = UNION {NewLinesOf(diff, h) : h \in Headers(diff)}
        /\ \A i \in 1..Len(diff) :
              (~IsHeaderLine(diff[i]) /\ IsContextLine(diff[i])) =>
                  /\ TrueNewLine(diff, i) \in DOMAIN result
                  /\ result[TrueNewLine(diff, i)] =
                        lineInfo(lineTypeContext, TrueOldLine(diff, i), TrueNewLine(diff, i))

====
